---- MODULE Spec2Model ----
(***************************************************************************)
(* Identity resolution and caching of the TIPN leaderboard                 *)
(* (src/services/cachedIdentityService.ts, unified tipn_stakers revision,  *)
(* with the provider adapters of src/utils/farcaster.ts and                *)
(* src/utils/ens.ts).                                                      *)
(*                                                                         *)
(* Strings are sequences of one-character strings, so that toLowerCase,    *)
(* toUpperCase and slice are computed character by character.  The null    *)
(* of JavaScript is the marker Null; a nullable object is a record whose   *)
(* fields are all Null.  A Map is a function from the address pool to an   *)
(* option: <<>> for a missing key, <<v>> for a key bound to v.  Times are  *)
(* milliseconds, as returned by Date.now().                                *)
(***************************************************************************)
EXTENDS Integers, Sequences, FiniteSets, TLC

(***************************************************************************)
(* Bounds of the model.                                                    *)
(***************************************************************************)
\* number of calls of the service that may be in flight at once
MaxCalls == 1
\* longest address list handed to a batch or force-refresh call
MaxLen == 2
\* how many times the clock advances (by TickMs) in a behaviour
MaxTicks == 1
\* longest address list handed to loadCachedIdentities on its own
MaxLoad == 250
\* how many quarters of an hour the clock of the staker refresh advances
MaxQuarters == 5
\* longest requestTimes list of the RateLimiter on its own
MaxRecorded == 11

(***************************************************************************)
(* RATE_LIMIT_CONFIG and the time arithmetic of the service.               *)
(***************************************************************************)
MAX_REQUESTS_PER_HOUR == 10
MAX_BATCH_SIZE == 5
SUPABASE_BATCH_SIZE == 100
CACHE_EXPIRY_HOURS == 24 * 7
ONE_HOUR == 60 * 60 * 1000
\* granularity of the clock: one step of time is one hour
TickMs == ONE_HOUR

Min(a, b) == IF a < b THEN a ELSE b
Max(a, b) == IF a > b THEN a ELSE b

(***************************************************************************)
(* JavaScript strings and arrays.                                          *)
(***************************************************************************)
Null == <<"null">>

\* JavaScript truthiness of a nullable string: null and '' are falsy
Truthy(s) == s # Null /\ s # <<>>

\* a || b on nullable strings
OrElse(a, b) == IF Truthy(a) THEN a ELSE b

LowerChar(c) ==
    CASE c = "A" -> "a" [] c = "B" -> "b" [] c = "C" -> "c"
      [] c = "D" -> "d" [] c = "E" -> "e" [] c = "F" -> "f"
      [] c = "X" -> "x" [] OTHER -> c

UpperChar(c) ==
    CASE c = "a" -> "A" [] c = "b" -> "B" [] c = "c" -> "C"
      [] c = "d" -> "D" [] c = "e" -> "E" [] c = "f" -> "F"
      [] c = "x" -> "X" [] OTHER -> c

toLowerCase(s) == [i \in 1..Len(s) |-> LowerChar(s[i])]
toUpperCase(s) == [i \in 1..Len(s) |-> UpperChar(s[i])]

\* index normalisation of Array.prototype.slice / String.prototype.slice
SliceIndex(k, n) == IF k < 0 THEN Max(n + k, 0) ELSE Min(k, n)

\* s.slice(b, e)
Slice(s, b, e) ==
    LET from == SliceIndex(b, Len(s))
        to   == SliceIndex(e, Len(s))
    IN  IF to <= from THEN <<>> ELSE SubSeq(s, from + 1, to)

\* s.slice(b)
SliceFrom(s, b) == Slice(s, b, Len(s))

\* `${address.slice(0, 6)}...${address.slice(-4)}`
TruncatedAddress(address) ==
    Slice(address, 0, 6) \o <<".", ".", ".">> \o SliceFrom(address, -4)

Range(f) == {f[i] : i \in DOMAIN f}

\* addresses.map(addr => addr.toLowerCase())
LowerAll(addresses) == [k \in 1..Len(addresses) |-> toLowerCase(addresses[k])]

(***************************************************************************)
(* The addresses of the model: the canonical (lowercase) addresses in      *)
(* rank order, and the forms in which callers may write them.              *)
(***************************************************************************)
Addr1 == <<"0", "x", "a", "1", "b", "2", "c", "3", "d", "4", "e", "5">>
Addr2 == <<"0", "x", "f", "6", "e", "7", "d", "8", "c", "9", "b", "0">>
PoolSeq == <<Addr1, Addr2>>
Pool == Range(PoolSeq)
AddressForms == Pool \cup {toUpperCase(Addr1)}

(***************************************************************************)
(* RateLimiter: the operators take and return the requestTimes list.       *)
(***************************************************************************)
\* this.requestTimes.filter(time => time > oneHourAgo)
PurgedTimes(times, t) == SelectSeq(times, LAMBDA time : time > t - ONE_HOUR)

\* canMakeRequest counting every recorded request, however old
canMakeRequestNoPurge(times, t) == Len(times) < MAX_REQUESTS_PER_HOUR

\* RateLimiter.canMakeRequest (its value; the purge is PurgedTimes)
canMakeRequest(times, t) == Len(PurgedTimes(times, t)) < MAX_REQUESTS_PER_HOUR

\* RateLimiter.recordRequest
recordRequest(times, t) == Append(times, t)

\* RateLimiter.getRequestCount (its value; the purge is PurgedTimes)
getRequestCount(times, t) == Len(PurgedTimes(times, t))

\* Math.min(...this.requestTimes)
OldestRequest(times) ==
    CHOOSE x \in Range(times) : \A y \in Range(times) : x <= y

\* getTimeUntilNextRequest counting from the newest request
getTimeUntilNextRequestNewest(times, t) ==
    IF Len(times) = 0 THEN 0
    ELSE Max(0, (CHOOSE x \in Range(times) : \A y \in Range(times) : x >= y)
                    + ONE_HOUR - t)

\* RateLimiter.getTimeUntilNextRequest
getTimeUntilNextRequest(times, t) ==
    IF Len(times) = 0 THEN 0
    ELSE Max(0, OldestRequest(times) + ONE_HOUR - t)

(***************************************************************************)
(* Provider adapters.                                                      *)
(***************************************************************************)
\* FarcasterUser | null  (bio, counts and verifiedAddresses are carried
\* through unread by the resolver and are left out)
NoUser == [fid |-> 0, username |-> Null, displayName |-> Null, pfpUrl |-> Null]

\* getFarcasterUserByAddress, lines 65-74: the FarcasterUser built from userData
FarcasterUserOf(userData) ==
    [fid         |-> userData.fid,
     username    |-> userData.username,
     displayName |-> OrElse(userData.display_name, userData.username),
     pfpUrl      |-> OrElse(userData.pfp_url, <<>>)]

EnsNames == {<<"k", ".", "e", "t", "h">>}
BaseNames == {<<"k", ".", "b", "a", "s", "e">>}

\* resolveBasename: the lookup is disabled and always answers null
resolveBasename(address) == Null

\* resolveName: { ens, basename, display }
resolveName(ens, basename) ==
    [ens |-> ens, basename |-> basename, display |-> OrElse(basename, OrElse(ens, Null))]

\* resolveName(address).catch(() => ...): the value after a rejection
NoNames == [ens |-> Null, basename |-> Null, display |-> Null]

(***************************************************************************)
(* CachedIdentity (a row of tipn_stakers, as selected by the service) and  *)
(* DisplayIdentity.  An option <<>> / <<t>> is a nullable timestamp.       *)
(***************************************************************************)
\* a row as saveToSupabase inserts it: the identity columns at their defaults
BlankRow(address) ==
    [address                |-> address,
     fid                    |-> 0,
     farcaster_username     |-> Null,
     farcaster_display_name |-> Null,
     farcaster_pfp_url      |-> Null,
     ens_name               |-> Null,
     basename               |-> Null,
     has_verified_identity  |-> FALSE,
     identity_type          |-> "address",
     display_name           |-> Null,
     profile_url            |-> Null,
     identity_last_updated  |-> <<>>]

\* isCacheExpired with the comparison turned round
isCacheExpiredReversed(lastUpdated, t) ==
    (t - lastUpdated) < CACHE_EXPIRY_HOURS * 60 * 60 * 1000

\* isCacheExpired(lastUpdated)
isCacheExpired(lastUpdated, t) ==
    (t - lastUpdated) > CACHE_EXPIRY_HOURS * 60 * 60 * 1000

\* cachedIdentity && cachedIdentity.identity_last_updated && !isCacheExpired(...)
\* on an entry of the loaded Map (an option)
IsFreshEntry(entry, t) ==
    /\ entry # <<>>
    /\ entry[1].identity_last_updated # <<>>
    /\ ~isCacheExpired(entry[1].identity_last_updated[1], t)

\* the branch of lines 944-961 with a name-service branch checked in the wrong
\* order: the ENS name before the basename
FreshDisplayEnsFirst(address, farcasterUser, ensData) ==
    IF farcasterUser # NoUser
    THEN [displayName |-> OrElse(farcasterUser.displayName,
                                 <<"@">> \o farcasterUser.username),
          identityType |-> "farcaster",
          profileUrl |-> <<"https://warpcast.com/">> \o farcasterUser.username,
          hasVerifiedIdentity |-> TRUE]
    ELSE IF Truthy(ensData.ens)
    THEN [displayName |-> ensData.ens, identityType |-> "ens",
          profileUrl |-> Null, hasVerifiedIdentity |-> TRUE]
    ELSE IF Truthy(ensData.basename)
    THEN [displayName |-> ensData.basename, identityType |-> "basename",
          profileUrl |-> Null, hasVerifiedIdentity |-> TRUE]
    ELSE [displayName |-> TruncatedAddress(address), identityType |-> "address",
          profileUrl |-> Null, hasVerifiedIdentity |-> FALSE]

\* the branch of lines 944-961 with the ENS branch leaving hasVerifiedIdentity
\* false
FreshDisplayEnsUnverified(address, farcasterUser, ensData) ==
    IF farcasterUser # NoUser
    THEN [displayName |-> OrElse(farcasterUser.displayName,
                                 <<"@">> \o farcasterUser.username),
          identityType |-> "farcaster",
          profileUrl |-> <<"https://warpcast.com/">> \o farcasterUser.username,
          hasVerifiedIdentity |-> TRUE]
    ELSE IF Truthy(ensData.basename)
    THEN [displayName |-> ensData.basename, identityType |-> "basename",
          profileUrl |-> Null, hasVerifiedIdentity |-> TRUE]
    ELSE IF Truthy(ensData.ens)
    THEN [displayName |-> ensData.ens, identityType |-> "ens",
          profileUrl |-> Null, hasVerifiedIdentity |-> FALSE]
    ELSE [displayName |-> TruncatedAddress(address), identityType |-> "address",
          profileUrl |-> Null, hasVerifiedIdentity |-> FALSE]

\* fetchFreshIdentity, lines 938-961: display name, kind, profile link and
\* verified flag chosen from the provider answers
FreshDisplay(address, farcasterUser, ensData) ==
    IF farcasterUser # NoUser
    THEN [displayName |-> OrElse(farcasterUser.displayName,
                                 <<"@">> \o farcasterUser.username),
          identityType |-> "farcaster",
          profileUrl |-> <<"https://warpcast.com/">> \o farcasterUser.username,
          hasVerifiedIdentity |-> TRUE]
    ELSE IF Truthy(ensData.basename)
    THEN [displayName |-> ensData.basename, identityType |-> "basename",
          profileUrl |-> Null, hasVerifiedIdentity |-> TRUE]
    ELSE IF Truthy(ensData.ens)
    THEN [displayName |-> ensData.ens, identityType |-> "ens",
          profileUrl |-> Null, hasVerifiedIdentity |-> TRUE]
    ELSE [displayName |-> TruncatedAddress(address), identityType |-> "address",
          profileUrl |-> Null, hasVerifiedIdentity |-> FALSE]

\* fetchFreshIdentity, lines 963-980: the record built from the provider answers
FreshIdentityRecord(address, farcasterUser, ensData, t) ==
    LET hasUser == farcasterUser # NoUser
        chosen == FreshDisplay(address, farcasterUser, ensData)
    IN  [address                |-> toLowerCase(address),
         fid                    |-> IF hasUser THEN farcasterUser.fid ELSE 0,
         farcaster_username     |-> IF hasUser THEN OrElse(farcasterUser.username, Null) ELSE Null,
         farcaster_display_name |-> IF hasUser THEN OrElse(farcasterUser.displayName, Null) ELSE Null,
         farcaster_pfp_url      |-> IF hasUser THEN OrElse(farcasterUser.pfpUrl, Null) ELSE Null,
         ens_name               |-> ensData.ens,
         basename               |-> ensData.basename,
         has_verified_identity  |-> chosen.hasVerifiedIdentity,
         identity_type          |-> chosen.identityType,
         display_name           |-> chosen.displayName,
         profile_url            |-> chosen.profileUrl,
         identity_last_updated  |-> <<t>>]

\* saveCachedIdentity, lines 886-901: the columns written by the update
UpdateData(identity, t) ==
    [identity EXCEPT !.identity_last_updated = <<t>>]

\* the branch of lines 1028-1047 with the basename checked before the
\* Farcaster profile
DisplayChoiceBasenameFirst(cached, farcaster) ==
    IF Truthy(cached.basename)
    THEN [displayName |-> cached.basename, displayAvatar |-> Null,
          identityType |-> "basename"]
    ELSE IF farcaster # NoUser
    THEN [displayName |-> farcaster.displayName, displayAvatar |-> farcaster.pfpUrl,
          identityType |-> "farcaster"]
    ELSE IF Truthy(cached.ens_name)
    THEN [displayName |-> cached.ens_name, displayAvatar |-> Null,
          identityType |-> "ens"]
    ELSE [displayName |-> OrElse(cached.display_name, TruncatedAddress(cached.address)),
          displayAvatar |-> Null, identityType |-> "address"]

\* the branch of lines 1028-1047 with the ENS branch reading the basename column
DisplayChoiceEnsFromBasename(cached, farcaster) ==
    IF farcaster # NoUser
    THEN [displayName |-> farcaster.displayName, displayAvatar |-> farcaster.pfpUrl,
          identityType |-> "farcaster"]
    ELSE IF Truthy(cached.basename)
    THEN [displayName |-> cached.basename, displayAvatar |-> Null,
          identityType |-> "basename"]
    ELSE IF Truthy(cached.ens_name)
    THEN [displayName |-> cached.basename, displayAvatar |-> Null,
          identityType |-> "ens"]
    ELSE [displayName |-> OrElse(cached.display_name, TruncatedAddress(cached.address)),
          displayAvatar |-> Null, identityType |-> "address"]

\* convertToDisplayIdentity, lines 1028-1047: display name, avatar and kind
\* chosen from the cached columns
DisplayChoice(cached, farcaster) ==
    IF farcaster # NoUser
    THEN [displayName |-> farcaster.displayName, displayAvatar |-> farcaster.pfpUrl,
          identityType |-> "farcaster"]
    ELSE IF Truthy(cached.basename)
    THEN [displayName |-> cached.basename, displayAvatar |-> Null,
          identityType |-> "basename"]
    ELSE IF Truthy(cached.ens_name)
    THEN [displayName |-> cached.ens_name, displayAvatar |-> Null,
          identityType |-> "ens"]
    ELSE [displayName |-> OrElse(cached.display_name, TruncatedAddress(cached.address)),
          displayAvatar |-> Null, identityType |-> "address"]

\* convertToDisplayIdentity
convertToDisplayIdentity(cached) ==
    LET farcaster ==
            IF Truthy(cached.farcaster_username)
            THEN [fid         |-> cached.fid,
                  username    |-> cached.farcaster_username,
                  displayName |-> OrElse(cached.farcaster_display_name,
                                         cached.farcaster_username),
                  pfpUrl      |-> OrElse(cached.farcaster_pfp_url, <<>>)]
            ELSE NoUser
        chosen == DisplayChoice(cached, farcaster)
    IN  [address             |-> cached.address,
         farcaster           |-> farcaster,
         ens                 |-> cached.ens_name,
         basename            |-> cached.basename,
         displayName         |-> chosen.displayName,
         displayAvatar       |-> chosen.displayAvatar,
         profileUrl          |-> cached.profile_url,
         hasVerifiedIdentity |-> cached.has_verified_identity,
         identityType        |-> chosen.identityType]

\* the address-only identity literal of getIdentityWithCache (lines 1091-1101,
\* 1108-1118) and batchGetIdentitiesWithCache (lines 1181-1191, 1215-1225,
\* 1238-1248): keyed by `key`, its display name cut from `shown`
BasicIdentity(key, shown) ==
    [address             |-> key,
     farcaster           |-> NoUser,
     ens                 |-> Null,
     basename            |-> Null,
     displayName         |-> TruncatedAddress(shown),
     displayAvatar       |-> Null,
     profileUrl          |-> Null,
     hasVerifiedIdentity |-> FALSE,
     identityType        |-> "address"]

(***************************************************************************)
(* State.                                                                  *)
(***************************************************************************)
VARIABLES
    now,             \* Date.now()
    requestTimes,    \* rateLimiter.requestTimes
    store,           \* the tipn_stakers table: address -> option of row
    farcasterCache,  \* farcaster.ts farcasterCache: address -> option of user
    ensCache,        \* ens.ts ensCache, the ens_ keys: address -> option of name
    calls,           \* the calls of the service in flight, one per slot
    ret,             \* what the last step returned to a caller, or NoRet
    NEYNAR_API_KEY,  \* farcaster.ts NEYNAR_API_KEY: whether the key is set
    tipn_last_refresh, \* localStorage item 'tipn_last_refresh': option of string
    hook,            \* the state of one mounted useSmartIdentityBatch hook
    currentRpcIndex, \* rpcClient.ts currentRpcIndex
    failedRpcs       \* rpcClient.ts failedRpcs: a set of indexes

vars == <<now, requestTimes, store, farcasterCache, ensCache, calls, ret,
          NEYNAR_API_KEY, tipn_last_refresh, hook, currentRpcIndex, failedRpcs>>

Slots == 1..MaxCalls

EmptyMap == [a \in Pool |-> <<>>]

IdleCall ==
    [op |-> "idle", pc |-> "idle", addresses |-> <<>>, cached |-> EmptyMap,
     needsFresh |-> <<>>, maxFreshRequests |-> 0, i |-> 0, items |-> <<>>,
     results |-> EmptyMap, refreshed |-> 0, attempted |-> <<>>, saved |-> {},
     failed |-> {}]

NoRet == [op |-> "none"]

\* useSmartIdentityBatch just mounted with no addresses (part_004): the
\* `addresses` argument of the last render, previousAddressesRef.current, the
\* keys of the `identities` state, isLoadingRef.current and the argument of the
\* loadIdentities call in flight
HookIdle ==
    [addresses |-> <<>>, previousAddressesRef |-> <<>>, identities |-> {},
     isLoadingRef |-> FALSE, addressesToLoad |-> <<>>]

(***************************************************************************)
(* loadCachedIdentities: one store query per chunk of SUPABASE_BATCH_SIZE  *)
(* addresses; outs[c] is what query c does.                                *)
(***************************************************************************)
QueryOutcomes == {"data", "error", "throw"}

NumChunks(n) == (n + SUPABASE_BATCH_SIZE - 1) \div SUPABASE_BATCH_SIZE

RECURSIVE LoadChunks(_, _, _, _, _)
LoadChunks(addresses, st, outs, c, cached) ==
    IF c > NumChunks(Len(addresses)) THEN cached
    ELSE LET batch == LowerAll(Slice(addresses, (c - 1) * SUPABASE_BATCH_SIZE,
                                     c * SUPABASE_BATCH_SIZE))
         IN  CASE outs[c] = "throw" -> EmptyMap
               [] outs[c] = "error" -> LoadChunks(addresses, st, outs, c + 1, cached)
               [] OTHER ->
                    LoadChunks(addresses, st, outs, c + 1,
                               [a \in Pool |->
                                   IF a \in Range(batch) /\ st[a] # <<>>
                                   THEN st[a] ELSE cached[a]])

loadCachedIdentities(addresses, st, outs) ==
    LoadChunks(addresses, st, outs, 1, EmptyMap)

(***************************************************************************)
(* fetchFreshIdentity.  An item is one invocation: pc "providers" while    *)
(* the provider lookups are awaited, "save" while the store update is      *)
(* awaited, "thrown" when the rate-limit check threw, "settled" at the end.*)
(* farcasterUser and ens are options: <<>> while the lookup is pending.    *)
(* The ens_ and fc_ entries of the two adapter caches are written when the *)
(* lookups of an invocation complete.                                      *)
(***************************************************************************)
ThrownItem(address) ==
    [address |-> address, pc |-> "thrown", farcasterUser |-> <<>>, ens |-> <<>>,
     identity |-> BlankRow(address)]

\* the start of the lookups with the test of the API key (farcaster.ts 31-35)
\* left out: the Farcaster lookup goes out whether a key is set or not
StartedItemIgnoringKey(address, t) ==
    LET key == toLowerCase(address)
        fc  == farcasterCache[key]
        en  == ensCache[key]
    IN  IF fc # <<>> /\ en # <<>>
        THEN [address |-> address, pc |-> "save", farcasterUser |-> fc, ens |-> en,
              identity |-> FreshIdentityRecord(address, fc[1],
                               resolveName(en[1], resolveBasename(address)), t)]
        ELSE [address |-> address, pc |-> "providers", farcasterUser |-> fc, ens |-> en,
              identity |-> BlankRow(address)]

\* lines 926-931 with farcaster.ts 24-35 and ens.ts 24-29: the lookups are
\* answered from the adapter caches when both hold the address, and the
\* Farcaster lookup is answered null at once when no API key is set
StartedItem(address, t) ==
    LET key == toLowerCase(address)
        fc  == IF farcasterCache[key] = <<>> /\ ~NEYNAR_API_KEY
               THEN <<NoUser>> ELSE farcasterCache[key]
        en  == ensCache[key]
    IN  IF fc # <<>> /\ en # <<>>
        THEN [address |-> address, pc |-> "save", farcasterUser |-> fc, ens |-> en,
              identity |-> FreshIdentityRecord(address, fc[1],
                               resolveName(en[1], resolveBasename(address)), t)]
        ELSE [address |-> address, pc |-> "providers", farcasterUser |-> fc, ens |-> en,
              identity |-> BlankRow(address)]

\* lines 933-936 for n invocations that found an account
RecordN(times, t, n) == times \o [j \in 1..n |-> t]

\* fetchFreshIdentity called for every address of `batch` in one synchronous
\* turn (lines 919-936): every check of the turn runs before any record
StartFetches(batch, times, t) ==
    IF batch = <<>> THEN [items |-> <<>>, times |-> times]
    ELSE LET ok == canMakeRequest(times, t)
             items == [k \in 1..Len(batch) |->
                          IF ok THEN StartedItem(batch[k], t) ELSE ThrownItem(batch[k])]
             found == {k \in 1..Len(batch) :
                          items[k].pc = "save" /\ items[k].farcasterUser[1] # NoUser}
         IN  [items |-> items,
              times |-> RecordN(PurgedTimes(times, t), t, Cardinality(found))]

\* the addresses whose provider lookups were issued
Issued(items) ==
    LET live == SelectSeq(items, LAMBDA it : it.pc # "thrown")
    IN  [k \in 1..Len(live) |-> live[k].address]

\* an update that merges: a column for which the refresh has no value keeps
\* the value stored before
StoreUpdateMerging(st, address, updateData) ==
    IF address \in DOMAIN st /\ st[address] # <<>>
    THEN LET old == st[address][1]
             kept(new, was) == IF Truthy(new) THEN new ELSE was
         IN  [st EXCEPT ![address] = <<[updateData EXCEPT
                 !.address = old.address,
                 !.fid = IF updateData.fid # 0 THEN updateData.fid ELSE old.fid,
                 !.farcaster_username = kept(@, old.farcaster_username),
                 !.farcaster_display_name = kept(@, old.farcaster_display_name),
                 !.ens_name = kept(@, old.ens_name),
                 !.basename = kept(@, old.basename)]>>]
    ELSE st

\* supabase.from('tipn_stakers').update(updateData).eq('address', identity.address)
StoreUpdate(st, address, updateData) ==
    IF address \in DOMAIN st /\ st[address] # <<>>
    THEN [st EXCEPT ![address] = <<[updateData EXCEPT !.address = st[address][1].address]>>]
    ELSE st

\* the world of the model: the account and the name the providers hold for
\* each address of the pool; a lookup answers with it, or with null when the
\* provider finds nothing or fails (farcaster.ts 57-60, 80-84; ens.ts 43-47).
\* An account always has a username; its display name may be empty.
AccountOf(address) ==
    [fid |-> 7, username |-> <<"a", "l">>,
     display_name |-> IF address = Addr1 THEN <<"A", "l">> ELSE <<>>,
     pfp_url |-> Null]

FarcasterAnswers(address) == {NoUser, FarcasterUserOf(AccountOf(toLowerCase(address)))}
EnsAnswers(address) == IF toLowerCase(address) = Addr1 THEN {Null} ELSE {Null} \cup EnsNames

(***************************************************************************)
(* Returning to the caller.                                                *)
(***************************************************************************)
ReturnOf(call, identity) ==
    [op |-> call.op, addresses |-> call.addresses, identity |-> identity,
     results |-> call.results, refreshed |-> call.refreshed,
     needsFresh |-> call.needsFresh, maxFreshRequests |-> call.maxFreshRequests,
     attempted |-> call.attempted, cached |-> call.cached, saved |-> call.saved,
     failed |-> call.failed]

\* a call starts in the first free slot, once the last return was delivered
Free(s) ==
    /\ ret = NoRet
    /\ calls[s].op = "idle"
    /\ \A q \in 1..(s - 1) : calls[q].op # "idle"

Return(s, call, identity) ==
    /\ calls' = [calls EXCEPT ![s] = IdleCall]
    /\ ret' = ReturnOf(call, identity)

Continue(s, call) ==
    /\ calls' = [calls EXCEPT ![s] = call]
    /\ ret' = NoRet

(***************************************************************************)
(* getIdentityWithCache                                                    *)
(***************************************************************************)
\* lines 1064-1102 up to the first suspension after the load: what the call
\* does with the loaded entry.  kind "return": it returns `identity`;
\* kind "fetch": it awaits fetchFreshIdentity(normalizedAddress)
GetIdentityDecision(address, cached, times, t) ==
    LET normalizedAddress == toLowerCase(address)
        entry == IF normalizedAddress \in Pool THEN cached[normalizedAddress] ELSE <<>>
    IN  IF IsFreshEntry(entry, t)
        THEN [kind |-> "return", identity |-> convertToDisplayIdentity(entry[1]),
              purge |-> FALSE]
        ELSE IF canMakeRequest(times, t)
        THEN [kind |-> "fetch", identity |-> BasicIdentity(normalizedAddress, address),
              purge |-> TRUE]
        ELSE IF entry # <<>>
        THEN [kind |-> "return", identity |-> convertToDisplayIdentity(entry[1]),
              purge |-> TRUE]
        ELSE [kind |-> "return", identity |-> BasicIdentity(normalizedAddress, address),
              purge |-> TRUE]

GetIdentityWithCache(s, address) ==
    /\ Free(s)
    /\ \E outs \in [1..NumChunks(1) -> QueryOutcomes] :
         LET normalizedAddress == toLowerCase(address)
             cached == loadCachedIdentities(<<normalizedAddress>>, store, outs)
             d == GetIdentityDecision(address, cached, requestTimes, now)
             call == [IdleCall EXCEPT !.op = "getIdentityWithCache",
                                      !.addresses = <<address>>,
                                      !.cached = cached]
             f == StartFetches(<<normalizedAddress>>, requestTimes, now)
         IN  IF d.kind = "return"
             THEN /\ requestTimes' = IF d.purge THEN PurgedTimes(requestTimes, now)
                                     ELSE requestTimes
                  /\ Return(s, call, <<d.identity>>)
             ELSE /\ requestTimes' = f.times
                  /\ IF f.items[1].pc = "thrown"
                     THEN \* catch, lines 1104-1119
                          Return(s, call, <<BasicIdentity(normalizedAddress, address)>>)
                     ELSE Continue(s, [call EXCEPT !.pc = "fetch", !.items = f.items,
                                                   !.attempted = Issued(f.items)])
    /\ UNCHANGED <<now, store, farcasterCache, ensCache, NEYNAR_API_KEY,
                   tipn_last_refresh, hook, currentRpcIndex, failedRpcs>>

(***************************************************************************)
(* batchGetIdentitiesWithCache                                             *)
(***************************************************************************)
\* the stale-cache-or-address-only answer of lines 1176-1192 and 1209-1226
StaleOrBasic(cached, address) ==
    IF cached[address] # <<>>
    THEN convertToDisplayIdentity(cached[address][1])
    ELSE BasicIdentity(address, address)

\* results.set(address, ...) for every address of `list`
SetAll(results, cached, list) ==
    [a \in Pool |-> IF a \in Range(list) THEN <<StaleOrBasic(cached, a)>> ELSE results[a]]

\* lines 1165-1196: the chunk that starts at call.i
ChunkOf(call) == Slice(call.needsFresh, call.i, call.i + MAX_BATCH_SIZE)

\* the chunk without the catch of lines 1172-1193: an invocation that throws
\* leaves no result for its address
StartChunkNoCatch(s, call, times) ==
    LET f == StartFetches(ChunkOf(call), times, now)
        items == [k \in 1..Len(f.items) |->
                     IF f.items[k].pc = "thrown"
                     THEN [f.items[k] EXCEPT !.pc = "settled"] ELSE f.items[k]]
    IN  /\ requestTimes' = f.times
        /\ Continue(s, [call EXCEPT
               !.pc = "chunk",
               !.items = items,
               !.attempted = call.attempted \o Issued(f.items)])

StartChunk(s, call, times) ==
    LET f == StartFetches(ChunkOf(call), times, now)
        thrown == SelectSeq(f.items, LAMBDA it : it.pc = "thrown")
        items == [k \in 1..Len(f.items) |->
                     IF f.items[k].pc = "thrown"
                     THEN [f.items[k] EXCEPT !.pc = "settled"] ELSE f.items[k]]
    IN  /\ requestTimes' = f.times
        /\ Continue(s, [call EXCEPT
               !.pc = "chunk",
               !.items = items,
               \* catch, lines 1172-1193
               !.results = SetAll(call.results, call.cached,
                                  [k \in 1..Len(thrown) |-> thrown[k].address]),
               !.attempted = call.attempted \o Issued(f.items)])

\* lines 1206-1230
FinishBatch(s, call, times) ==
    LET remaining == SliceFrom(call.needsFresh, call.maxFreshRequests)
    IN  /\ requestTimes' = times
        /\ Return(s, [call EXCEPT !.results = SetAll(call.results, call.cached, remaining)],
                  <<>>)

BatchGetIdentitiesWithCache(s, addresses) ==
    /\ Free(s)
    /\ \E outs \in [1..NumChunks(Len(addresses)) -> QueryOutcomes] :
         LET normalizedAddresses == LowerAll(addresses)
             cached == loadCachedIdentities(normalizedAddresses, store, outs)
             needsFresh == SelectSeq(normalizedAddresses,
                                     LAMBDA a : ~IsFreshEntry(cached[a], now))
             canUseCached == SelectSeq(normalizedAddresses,
                                       LAMBDA a : IsFreshEntry(cached[a], now))
             results == [a \in Pool |->
                            IF a \in Range(canUseCached)
                            THEN <<convertToDisplayIdentity(cached[a][1])>> ELSE <<>>]
             maxFreshRequests ==
                 Min(Len(needsFresh),
                     MAX_REQUESTS_PER_HOUR - getRequestCount(requestTimes, now))
             call == [IdleCall EXCEPT
                         !.op = "batchGetIdentitiesWithCache",
                         !.addresses = normalizedAddresses,
                         !.cached = cached,
                         !.needsFresh = needsFresh,
                         !.maxFreshRequests = maxFreshRequests,
                         !.results = results]
         IN  IF maxFreshRequests > 0
             THEN StartChunk(s, call, PurgedTimes(requestTimes, now))
             ELSE FinishBatch(s, call, PurgedTimes(requestTimes, now))
    /\ UNCHANGED <<now, store, farcasterCache, ensCache, NEYNAR_API_KEY,
                   tipn_last_refresh, hook, currentRpcIndex, failedRpcs>>

\* the loop going on to its next chunk without awaiting Promise.allSettled
BatchChunkNotAwaited(s) ==
    /\ ret = NoRet
    /\ calls[s].op = "batchGetIdentitiesWithCache"
    /\ calls[s].pc = "chunk"
    /\ LET call == [calls[s] EXCEPT !.i = @ + MAX_BATCH_SIZE, !.items = <<>>]
       IN  IF call.i < call.maxFreshRequests
           THEN StartChunk(s, call, requestTimes)
           ELSE FinishBatch(s, call, requestTimes)
    /\ UNCHANGED <<now, store, farcasterCache, ensCache, NEYNAR_API_KEY,
                   tipn_last_refresh, hook, currentRpcIndex, failedRpcs>>

\* line 1196 and after: Promise.allSettled has settled (and the delay between
\* batches has passed)
BatchChunkSettled(s) ==
    /\ ret = NoRet
    /\ calls[s].op = "batchGetIdentitiesWithCache"
    /\ calls[s].pc = "chunk"
    /\ \A k \in 1..Len(calls[s].items) : calls[s].items[k].pc = "settled"
    /\ LET call == [calls[s] EXCEPT !.i = @ + MAX_BATCH_SIZE, !.items = <<>>]
       IN  IF call.i < call.maxFreshRequests
           THEN StartChunk(s, call, requestTimes)
           ELSE FinishBatch(s, call, requestTimes)
    /\ UNCHANGED <<now, store, farcasterCache, ensCache, NEYNAR_API_KEY,
                   tipn_last_refresh, hook, currentRpcIndex, failedRpcs>>

(***************************************************************************)
(* forceRefreshIdentities and enrichExistingStakers: one fetch at a time   *)
(* over call.needsFresh (toRefresh, stakersToEnrich), call.i being the     *)
(* index of the next address.                                              *)
(***************************************************************************)
\* the loop of lines 1264-1276 from its next iteration on
ForceIterate(s, call, times) ==
    IF call.i >= Len(call.needsFresh)
    THEN requestTimes' = times /\ Return(s, call, <<>>)
    ELSE LET f == StartFetches(<<call.needsFresh[call.i + 1]>>, times, now)
         IN  /\ requestTimes' = f.times
             /\ IF f.items[1].pc = "thrown"
                THEN \* catch, line 1273: this and every later address of the
                     \* same turn fail the same check
                     Return(s, call, <<>>)
                ELSE Continue(s, [call EXCEPT !.pc = "fetch", !.items = f.items,
                                      !.attempted = @ \o Issued(f.items)])

\* forceRefreshIdentities leaving out the addresses whose record is fresh
ForceRefreshSkippingFresh(s, addresses) ==
    /\ Free(s)
    /\ LET maxRequests == MAX_REQUESTS_PER_HOUR - getRequestCount(requestTimes, now)
           toRefresh == SelectSeq(LowerAll(Slice(addresses, 0, maxRequests)),
                                  LAMBDA a : ~IsFreshEntry(store[a], now))
           call == [IdleCall EXCEPT !.op = "forceRefreshIdentities",
                                    !.addresses = LowerAll(addresses),
                                    !.needsFresh = toRefresh,
                                    !.maxFreshRequests = maxRequests]
       IN  ForceIterate(s, call, PurgedTimes(requestTimes, now))
    /\ UNCHANGED <<now, store, farcasterCache, ensCache, NEYNAR_API_KEY,
                   tipn_last_refresh, hook, currentRpcIndex, failedRpcs>>

ForceRefreshIdentities(s, addresses) ==
    /\ Free(s)
    /\ LET maxRequests == MAX_REQUESTS_PER_HOUR - getRequestCount(requestTimes, now)
           toRefresh == Slice(addresses, 0, maxRequests)
           call == [IdleCall EXCEPT !.op = "forceRefreshIdentities",
                                    !.addresses = LowerAll(addresses),
                                    \* line 1266: address.toLowerCase()
                                    !.needsFresh = LowerAll(toRefresh),
                                    !.maxFreshRequests = maxRequests]
       IN  ForceIterate(s, call, PurgedTimes(requestTimes, now))
    /\ UNCHANGED <<now, store, farcasterCache, ensCache, NEYNAR_API_KEY,
                   tipn_last_refresh, hook, currentRpcIndex, failedRpcs>>

\* lines 1306-1311: the rows to enrich, by rank, at most `limit`
StakersToEnrich(st, limit) ==
    LET need == SelectSeq(PoolSeq, LAMBDA a :
                    /\ st[a] # <<>>
                    /\ \/ st[a][1].identity_last_updated = <<>>
                       \/ ~st[a][1].has_verified_identity)
    IN  Slice([k \in 1..Len(need) |-> st[need[k]][1].address], 0, limit)

\* the loop of lines 1323-1343 from its next iteration on
EnrichIterate(s, call, times) ==
    IF call.i >= Len(call.needsFresh)
    THEN requestTimes' = times /\ Return(s, call, <<>>)
    ELSE IF ~canMakeRequest(times, now)
    THEN requestTimes' = PurgedTimes(times, now) /\ Return(s, call, <<>>)
    ELSE LET f == StartFetches(<<call.needsFresh[call.i + 1]>>, times, now)
         IN  /\ requestTimes' = f.times
             /\ Continue(s, [call EXCEPT !.pc = "fetch", !.items = f.items,
                                  !.attempted = @ \o Issued(f.items)])

EnrichLimits == 1..MaxLen

EnrichExistingStakers(s, limit) ==
    /\ Free(s)
    /\ \E out \in {"data", "error"} :
         LET call == [IdleCall EXCEPT !.op = "enrichExistingStakers",
                          !.needsFresh = IF out = "data"
                                         THEN StakersToEnrich(store, limit) ELSE <<>>]
         IN  EnrichIterate(s, call, requestTimes)
    /\ UNCHANGED <<now, store, farcasterCache, ensCache, NEYNAR_API_KEY,
                   tipn_last_refresh, hook, currentRpcIndex, failedRpcs>>

\* the delay between requests has passed (lines 1270-1272, 1336-1338)
DelayDone(s) ==
    /\ ret = NoRet
    /\ calls[s].pc = "delay"
    /\ IF calls[s].op = "forceRefreshIdentities"
       THEN ForceIterate(s, calls[s], requestTimes)
       ELSE EnrichIterate(s, calls[s], requestTimes)
    /\ UNCHANGED <<now, store, farcasterCache, ensCache, NEYNAR_API_KEY,
                   tipn_last_refresh, hook, currentRpcIndex, failedRpcs>>

(***************************************************************************)
(* The two suspensions of fetchFreshIdentity.                              *)
(***************************************************************************)
\* the step after the provider lookups with saveCachedIdentity started but not
\* awaited: getIdentityWithCache gets its record, and returns, before the
\* store update has settled
ProvidersDoneSaveNotAwaited(s, k) ==
    /\ ret = NoRet
    /\ k \in 1..Len(calls[s].items)
    /\ calls[s].items[k].pc = "providers"
    /\ LET item == calls[s].items[k]
           key == toLowerCase(item.address)
       IN  \E fc \in (IF item.farcasterUser # <<>> THEN {item.farcasterUser[1]}
                      ELSE FarcasterAnswers(item.address)),
              en \in (IF item.ens # <<>> THEN {item.ens[1]} ELSE EnsAnswers(item.address)) :
             LET fresh == FreshIdentityRecord(item.address, fc,
                              resolveName(en, resolveBasename(item.address)), now)
             IN  /\ farcasterCache' = [farcasterCache EXCEPT ![key] = <<fc>>]
                 /\ ensCache' = [ensCache EXCEPT ![key] = <<en>>]
                 /\ requestTimes' = IF fc # NoUser THEN recordRequest(requestTimes, now)
                                    ELSE requestTimes
                 /\ IF calls[s].op = "getIdentityWithCache"
                    THEN Return(s, calls[s], <<convertToDisplayIdentity(fresh)>>)
                    ELSE Continue(s, [calls[s] EXCEPT !.items[k] =
                             [item EXCEPT !.pc = "save", !.farcasterUser = <<fc>>,
                                          !.ens = <<en>>, !.identity = fresh]])
    /\ UNCHANGED <<now, store, NEYNAR_API_KEY, tipn_last_refresh, hook, currentRpcIndex,
                   failedRpcs>>

\* the provider lookups of item k have completed (lines 928-980)
ProvidersDone(s, k) ==
    /\ ret = NoRet
    /\ k \in 1..Len(calls[s].items)
    /\ calls[s].items[k].pc = "providers"
    /\ LET item == calls[s].items[k]
           key == toLowerCase(item.address)
       IN  \E fc \in (IF item.farcasterUser # <<>> THEN {item.farcasterUser[1]}
                      ELSE FarcasterAnswers(item.address)),
              en \in (IF item.ens # <<>> THEN {item.ens[1]} ELSE EnsAnswers(item.address)) :
             /\ farcasterCache' = [farcasterCache EXCEPT ![key] = <<fc>>]
             /\ ensCache' = [ensCache EXCEPT ![key] = <<en>>]
             /\ requestTimes' = IF fc # NoUser THEN recordRequest(requestTimes, now)
                                ELSE requestTimes
             /\ Continue(s, [calls[s] EXCEPT !.items[k] =
                    [item EXCEPT !.pc = "save", !.farcasterUser = <<fc>>, !.ens = <<en>>,
                                 !.identity = FreshIdentityRecord(item.address, fc,
                                     resolveName(en, resolveBasename(item.address)), now)]])
    /\ UNCHANGED <<now, store, NEYNAR_API_KEY, tipn_last_refresh, hook, currentRpcIndex,
                   failedRpcs>>

\* the step after the store update in which a failed update undoes the
\* refresh: the caller is answered from the entry it had loaded, or with the
\* address-only identity
SaveDoneUndoOnError(s, k) ==
    /\ ret = NoRet
    /\ k \in 1..Len(calls[s].items)
    /\ calls[s].items[k].pc = "save"
    /\ \E out \in {"ok", "error"} :
         LET item == calls[s].items[k]
             fresh == item.identity
             call == [calls[s] EXCEPT
                         !.saved = @ \cup {item.address},
                         !.failed = IF out = "error" THEN @ \cup {item.address} ELSE @]
         IN
             LET shown == IF out = "ok" THEN convertToDisplayIdentity(fresh)
                          ELSE StaleOrBasic(call.cached, item.address)
             IN  /\ store' = IF out = "ok"
                              THEN StoreUpdate(store, fresh.address,
                                       UpdateData(fresh, fresh.identity_last_updated[1]))
                              ELSE store
                 /\ CASE call.op = "getIdentityWithCache" -> Return(s, call, <<shown>>)
                      [] call.op = "batchGetIdentitiesWithCache" ->
                           Continue(s, [call EXCEPT !.items[k].pc = "settled",
                                                    !.results[item.address] = <<shown>>])
                      [] OTHER ->
                           LET next == [call EXCEPT !.refreshed = @ + 1, !.i = @ + 1,
                                                    !.items = <<>>]
                           IN  IF next.refreshed < Len(next.needsFresh)
                               THEN Continue(s, [next EXCEPT !.pc = "delay"])
                               ELSE Return(s, next, <<>>)
    /\ UNCHANGED <<now, requestTimes, farcasterCache, ensCache, NEYNAR_API_KEY,
                   tipn_last_refresh, hook, currentRpcIndex, failedRpcs>>

\* the store update of item k has settled (lines 983-986) and the caller of
\* fetchFreshIdentity goes on
SaveDone(s, k) ==
    /\ ret = NoRet
    /\ k \in 1..Len(calls[s].items)
    /\ calls[s].items[k].pc = "save"
    /\ \E out \in {"ok", "error"} :
         LET item == calls[s].items[k]
             fresh == item.identity
             call == [calls[s] EXCEPT
                         !.saved = @ \cup {item.address},
                         !.failed = IF out = "error" THEN @ \cup {item.address} ELSE @]
         IN  /\ store' = IF out = "ok"
                          THEN StoreUpdate(store, fresh.address,
                                   UpdateData(fresh, fresh.identity_last_updated[1]))
                          ELSE store
             /\ CASE call.op = "getIdentityWithCache" ->
                       Return(s, call, <<convertToDisplayIdentity(fresh)>>)
                  [] call.op = "batchGetIdentitiesWithCache" ->
                       Continue(s, [call EXCEPT
                           !.items[k].pc = "settled",
                           !.results[item.address] = <<convertToDisplayIdentity(fresh)>>])
                  [] OTHER ->
                       LET next == [call EXCEPT !.refreshed = @ + 1, !.i = @ + 1,
                                                !.items = <<>>]
                       IN  IF next.refreshed < Len(next.needsFresh)
                           THEN Continue(s, [next EXCEPT !.pc = "delay"])
                           ELSE Return(s, next, <<>>)
    /\ UNCHANGED <<now, requestTimes, farcasterCache, ensCache, NEYNAR_API_KEY,
                   tipn_last_refresh, hook, currentRpcIndex, failedRpcs>>

(***************************************************************************)
(* Time, and the specification.                                            *)
(***************************************************************************)
\* the clock moves on by TickMs.  Spec below keeps the clock still: all of a
\* behaviour's requests fall within one hour, the window of the RateLimiter.
Tick ==
    /\ ret = NoRet
    /\ now < MaxTicks * TickMs
    /\ now' = now + TickMs
    /\ ret' = NoRet
    /\ UNCHANGED <<requestTimes, store, farcasterCache, ensCache, calls, NEYNAR_API_KEY,
                   tipn_last_refresh, hook, currentRpcIndex, failedRpcs>>

\* the caller takes the returned value
Deliver ==
    /\ ret # NoRet
    /\ ret' = NoRet
    /\ UNCHANGED <<now, requestTimes, store, farcasterCache, ensCache, calls,
                   NEYNAR_API_KEY, tipn_last_refresh, hook, currentRpcIndex,
                   failedRpcs>>

\* a row written by an earlier run of the service, `age` milliseconds ago
OldRow(address, farcasterUser, ens, age) ==
    FreshIdentityRecord(address, farcasterUser, resolveName(ens, Null), 0 - age)

ExpiredAge == CACHE_EXPIRY_HOURS * 60 * 60 * 1000 + 1000

InitialRows(a) ==
    { <<>>, <<BlankRow(a)>> }
        \cup { <<OldRow(a, FarcasterUserOf(AccountOf(a)), Null, ExpiredAge)>> }

AddressLists ==
    UNION { [1..n -> AddressForms] : n \in 1..MaxLen }

Init ==
    /\ now = 0
    /\ requestTimes = <<>>
    /\ store \in { st \in [Pool -> UNION {InitialRows(a) : a \in Pool}] :
                      \A a \in Pool : st[a] \in InitialRows(a) }
    /\ farcasterCache = EmptyMap
    /\ ensCache = EmptyMap
    /\ calls = [s \in Slots |-> IdleCall]
    /\ ret = NoRet
    /\ NEYNAR_API_KEY = TRUE
    /\ tipn_last_refresh = <<>>
    /\ hook = HookIdle
    /\ currentRpcIndex = 0
    /\ failedRpcs = {}

\* the state after construction when VITE_NEYNAR_API_KEY is not set
InitNoKey ==
    /\ now = 0
    /\ requestTimes = <<>>
    /\ store \in { st \in [Pool -> UNION {InitialRows(a) : a \in Pool}] :
                      \A a \in Pool : st[a] \in InitialRows(a) }
    /\ farcasterCache = EmptyMap
    /\ ensCache = EmptyMap
    /\ calls = [s \in Slots |-> IdleCall]
    /\ ret = NoRet
    /\ NEYNAR_API_KEY = FALSE
    /\ tipn_last_refresh = <<>>
    /\ hook = HookIdle
    /\ currentRpcIndex = 0
    /\ failedRpcs = {}

Next ==
    \/ Deliver
    \/ \E s \in Slots, address \in AddressForms : GetIdentityWithCache(s, address)
    \/ \E s \in Slots, addresses \in AddressLists : BatchGetIdentitiesWithCache(s, addresses)
    \/ \E s \in Slots, addresses \in AddressLists : ForceRefreshIdentities(s, addresses)
    \/ \E s \in Slots, limit \in EnrichLimits : EnrichExistingStakers(s, limit)
    \/ \E s \in Slots : BatchChunkSettled(s)
    \/ \E s \in Slots : DelayDone(s)
    \/ \E s \in Slots, k \in 1..MAX_BATCH_SIZE : ProvidersDone(s, k)
    \/ \E s \in Slots, k \in 1..MAX_BATCH_SIZE : SaveDone(s, k)

Spec == Init /\ [][Next]_vars

\* the service running without an API key
SpecNoKey == InitNoKey /\ [][Next]_vars

(***************************************************************************)
(* The identity of an address as a function of its fragments: the record   *)
(* fetchFreshIdentity builds and the identity convertToDisplayIdentity     *)
(* rebuilds, for every combination of Farcaster profile, ENS name and      *)
(* basename (the live basename lookup never answers, so the main           *)
(* specification never holds one).                                         *)
(***************************************************************************)
Users == {NoUser} \cup {FarcasterUserOf(AccountOf(a)) : a \in Pool}

\* the rows the store may hold for an address: as inserted, or as written by
\* an earlier refresh
StoredRows(a) ==
    {BlankRow(a)} \cup
    {FreshIdentityRecord(a, u, resolveName(e, b), 0) :
        u \in Users, e \in {Null} \cup EnsNames, b \in {Null} \cup BaseNames}

InitFragments ==
    /\ now = 0
    /\ requestTimes = <<>>
    /\ store \in {st \in [Pool -> {<<r>> : r \in UNION {StoredRows(a) : a \in Pool}}] :
                     \A a \in Pool : st[a][1] \in StoredRows(a)}
    /\ farcasterCache = EmptyMap
    /\ ensCache = EmptyMap
    /\ calls = [s \in Slots |-> IdleCall]
    /\ ret = NoRet
    /\ NEYNAR_API_KEY = TRUE
    /\ tipn_last_refresh = <<>>
    /\ hook = HookIdle
    /\ currentRpcIndex = 0
    /\ failedRpcs = {}

\* fetchFreshIdentity(address) with the provider answers u, e, b, its store
\* update succeeding, and the identity its callers make of the record
RefreshFromFragments(address, u, e, b) ==
    LET ensData == resolveName(e, b)
        cachedIdentity == FreshIdentityRecord(address, u, ensData, now)
    IN  /\ store' = StoreUpdate(store, cachedIdentity.address,
                                UpdateData(cachedIdentity, now))
        /\ ret' = [op |-> "fetchFreshIdentity", farcasterUser |-> u,
                   ensData |-> ensData, cached |-> cachedIdentity,
                   identity |-> <<convertToDisplayIdentity(cachedIdentity)>>]
        /\ UNCHANGED <<now, requestTimes, farcasterCache, ensCache, calls,
                       NEYNAR_API_KEY, tipn_last_refresh, hook, currentRpcIndex,
                       failedRpcs>>

\* convertToDisplayIdentity on the row the store holds for address a
RebuildFromRecord(a) ==
    /\ ret' = [op |-> "convertToDisplayIdentity", cached |-> store[a][1],
               identity |-> <<convertToDisplayIdentity(store[a][1])>>]
    /\ UNCHANGED <<now, requestTimes, store, farcasterCache, ensCache, calls,
                   NEYNAR_API_KEY, tipn_last_refresh, hook, currentRpcIndex,
                   failedRpcs>>

NextFragments ==
    \/ \E address \in Pool, u \in Users, e \in {Null} \cup EnsNames,
          b \in {Null} \cup BaseNames : RefreshFromFragments(address, u, e, b)
    \/ \E a \in Pool : RebuildFromRecord(a)

SpecFragments == InitFragments /\ [][NextFragments]_vars

(***************************************************************************)
(* loadCachedIdentities on its own, one store query at a time, over lists  *)
(* long enough to need several queries.  The addresses are numbered; the   *)
(* caller writes them with an upper-case letter.  A call is a record of    *)
(* the list, the index i of the loop, the Map built so far, the batches    *)
(* queried and what each query did.                                        *)
(***************************************************************************)
Digits == <<"0", "1", "2", "3", "4", "5", "6", "7", "8", "9">>

\* the k-th address, as the caller writes it
LoadAddress(k) ==
    <<"0", "x", "A", Digits[((k \div 100) % 10) + 1], Digits[((k \div 10) % 10) + 1],
      Digits[(k % 10) + 1]>>

LoadKeys == {toLowerCase(LoadAddress(k)) : k \in 1..(MaxLoad + 1)}

EmptyLoadMap == [a \in LoadKeys |-> <<>>]

\* the lists handed to loadCachedIdentities: none, one query's worth and less,
\* and lists that need two and three queries
LoadSizes ==
    {0, 1, SUPABASE_BATCH_SIZE, SUPABASE_BATCH_SIZE + 1, 2 * SUPABASE_BATCH_SIZE, MaxLoad}

\* the empty table, the table with a row for every address, and the table with
\* a row for every other one
LoadStores ==
    {EmptyLoadMap,
     [a \in LoadKeys |-> <<BlankRow(a)>>],
     [a \in LoadKeys |->
         IF \E k \in 1..(MaxLoad + 1) : k % 2 = 1 /\ a = toLowerCase(LoadAddress(k))
         THEN <<BlankRow(a)>> ELSE <<>>]}

InitLoad ==
    /\ now = 0
    /\ requestTimes = <<>>
    /\ store \in LoadStores
    /\ farcasterCache = EmptyMap
    /\ ensCache = EmptyMap
    /\ calls = [s \in Slots |-> [op |-> "idle"]]
    /\ ret = NoRet
    /\ NEYNAR_API_KEY = TRUE
    /\ tipn_last_refresh = <<>>
    /\ hook = HookIdle
    /\ currentRpcIndex = 0
    /\ failedRpcs = {}

\* line 832: addresses.slice(i, i + batchSize).map(addr => addr.toLowerCase())
LoadBatch(addresses, i) ==
    LowerAll(Slice(addresses, i, i + SUPABASE_BATCH_SIZE))

\* lines 862-866: cached.set(row.address, row) for the rows the query selected
WithRows(cached, st, batch) ==
    [a \in LoadKeys |-> IF a \in Range(batch) /\ st[a] # <<>> THEN st[a] ELSE cached[a]]

\* lines 831-875 from the loop test on: the next query, or the return
LoadIterate(s, call) ==
    IF call.i < Len(call.addresses)
    THEN /\ calls' = [calls EXCEPT ![s] =
                 [call EXCEPT !.queries = Append(@, LoadBatch(call.addresses, call.i))]]
         /\ ret' = NoRet
    ELSE /\ calls' = [calls EXCEPT ![s] = [op |-> "idle"]]
         /\ ret' = call

\* loadCachedIdentities(addresses) for the first n addresses
LoadCachedIdentitiesCall(s, n) ==
    /\ ret = NoRet
    /\ calls[s].op = "idle"
    /\ \A q \in 1..(s - 1) : calls[q].op # "idle"
    /\ LoadIterate(s, [op |-> "loadCachedIdentities",
                       addresses |-> [k \in 1..n |-> LoadAddress(k)],
                       i |-> 0, cached |-> EmptyLoadMap, queries |-> <<>>,
                       outcomes |-> <<>>])
    /\ UNCHANGED <<now, requestTimes, store, farcasterCache, ensCache, NEYNAR_API_KEY,
                   tipn_last_refresh, hook, currentRpcIndex, failedRpcs>>

\* the query awaited at line 836 has settled with outcome out
LoadQueryDone(s, out) ==
    /\ ret = NoRet
    /\ calls[s].op = "loadCachedIdentities"
    /\ LET call == [calls[s] EXCEPT !.outcomes = Append(@, out)]
           batch == call.queries[Len(call.queries)]
       IN  CASE out = "throw" ->
                    \* catch, lines 877-880
                    /\ calls' = [calls EXCEPT ![s] = [op |-> "idle"]]
                    /\ ret' = [call EXCEPT !.cached = EmptyLoadMap]
              [] out = "error" ->
                    \* lines 857-860
                    LoadIterate(s, [call EXCEPT !.i = @ + SUPABASE_BATCH_SIZE])
              [] OTHER ->
                    LoadIterate(s, [call EXCEPT
                        !.cached = WithRows(call.cached, store, batch),
                        !.i = @ + SUPABASE_BATCH_SIZE])
    /\ UNCHANGED <<now, requestTimes, store, farcasterCache, ensCache, NEYNAR_API_KEY,
                   tipn_last_refresh, hook, currentRpcIndex, failedRpcs>>

NextLoad ==
    \/ Deliver
    \/ \E s \in Slots, n \in LoadSizes : LoadCachedIdentitiesCall(s, n)
    \/ \E s \in Slots, out \in QueryOutcomes : LoadQueryDone(s, out)

SpecLoad == InitLoad /\ [][NextLoad]_vars

(***************************************************************************)
(* batchGetIdentitiesWithCache over a list that needs two chunks, with     *)
(* getIdentityWithCache calls of another caller made while it runs.        *)
(***************************************************************************)
ChunkSlots == 1..(MaxCalls + 1)

\* the lists of the batch: seven addresses, the last two in the second chunk
ChunkLists ==
    {[j \in 1..(MAX_BATCH_SIZE + 2) |->
         IF j <= MAX_BATCH_SIZE THEN Addr1 ELSE IF j = MAX_BATCH_SIZE + 1 THEN Addr2 ELSE last] :
       last \in AddressForms \ {Addr2}}

\* three requests were recorded within the hour, one of them by a refresh of
\* Addr1 whose answers the adapter caches still hold and whose store update
\* failed: the row of Addr1 is the expired one
InitChunks ==
    /\ now = 0
    /\ requestTimes = <<0, 0, 0>>
    /\ store = [a \in Pool |->
                   IF a = Addr1
                   THEN <<OldRow(a, FarcasterUserOf(AccountOf(a)), Null, ExpiredAge)>>
                   ELSE <<>>]
    /\ farcasterCache = [a \in Pool |->
                            IF a = Addr1 THEN <<FarcasterUserOf(AccountOf(a))>> ELSE <<>>]
    /\ ensCache = [a \in Pool |-> IF a = Addr1 THEN <<Null>> ELSE <<>>]
    /\ calls = [s \in ChunkSlots |-> IdleCall]
    /\ ret = NoRet
    /\ NEYNAR_API_KEY = TRUE
    /\ tipn_last_refresh = <<>>
    /\ hook = HookIdle
    /\ currentRpcIndex = 0
    /\ failedRpcs = {}

NextChunks ==
    \/ Deliver
    \/ \E addresses \in ChunkLists : BatchGetIdentitiesWithCache(1, addresses)
    \/ \E s \in ChunkSlots \ {1}, address \in Pool : GetIdentityWithCache(s, address)
    \/ \E s \in ChunkSlots : BatchChunkSettled(s)
    \/ \E s \in ChunkSlots, k \in 1..MAX_BATCH_SIZE : ProvidersDone(s, k)
    \/ \E s \in ChunkSlots, k \in 1..MAX_BATCH_SIZE : SaveDone(s, k)

SpecChunks == InitChunks /\ [][NextChunks]_vars

(***************************************************************************)
(* The RateLimiter on its own, with the clock moving: its four methods     *)
(* called in any order.  The limiter may hold requests recorded half an    *)
(* hour before the start.                                                  *)
(***************************************************************************)
RecordedBefore ==
    {<<>>} \cup {[j \in 1..n |-> 0 - (ONE_HOUR \div 2)] :
                    n \in {1, MAX_REQUESTS_PER_HOUR - 1, MAX_REQUESTS_PER_HOUR}}

InitLimiter ==
    /\ now = 0
    /\ requestTimes \in RecordedBefore
    /\ store = EmptyMap
    /\ farcasterCache = EmptyMap
    /\ ensCache = EmptyMap
    /\ calls = [s \in Slots |-> IdleCall]
    /\ ret = NoRet
    /\ NEYNAR_API_KEY = TRUE
    /\ tipn_last_refresh = <<>>
    /\ hook = HookIdle
    /\ currentRpcIndex = 0
    /\ failedRpcs = {}

\* rateLimiter.canMakeRequest(), lines 737-745
CanMakeRequestCall ==
    /\ ret = NoRet
    /\ requestTimes' = PurgedTimes(requestTimes, now)
    /\ ret' = [op |-> "canMakeRequest", value |-> canMakeRequest(requestTimes, now),
               before |-> requestTimes]
    /\ UNCHANGED <<now, store, farcasterCache, ensCache, calls, NEYNAR_API_KEY,
                   tipn_last_refresh, hook, currentRpcIndex, failedRpcs>>

\* rateLimiter.recordRequest(), lines 747-749
RecordRequestCall ==
    /\ ret = NoRet
    /\ Len(requestTimes) < MaxRecorded
    /\ requestTimes' = recordRequest(requestTimes, now)
    /\ UNCHANGED <<now, store, farcasterCache, ensCache, calls, ret, NEYNAR_API_KEY,
                   tipn_last_refresh, hook, currentRpcIndex, failedRpcs>>

\* rateLimiter.getRequestCount(), lines 761-768
GetRequestCountCall ==
    /\ ret = NoRet
    /\ requestTimes' = PurgedTimes(requestTimes, now)
    /\ ret' = [op |-> "getRequestCount", value |-> getRequestCount(requestTimes, now),
               before |-> requestTimes]
    /\ UNCHANGED <<now, store, farcasterCache, ensCache, calls, NEYNAR_API_KEY,
                   tipn_last_refresh, hook, currentRpcIndex, failedRpcs>>

\* rateLimiter.getTimeUntilNextRequest(), lines 751-759
GetTimeUntilNextRequestCall ==
    /\ ret = NoRet
    /\ ret' = [op |-> "getTimeUntilNextRequest",
               value |-> getTimeUntilNextRequest(requestTimes, now),
               before |-> requestTimes]
    /\ UNCHANGED <<now, requestTimes, store, farcasterCache, ensCache, calls,
                   NEYNAR_API_KEY, tipn_last_refresh, hook, currentRpcIndex, failedRpcs>>

NextLimiter ==
    \/ Deliver
    \/ Tick
    \/ CanMakeRequestCall
    \/ RecordRequestCall
    \/ GetRequestCountCall
    \/ GetTimeUntilNextRequestCall

SpecLimiter == InitLimiter /\ [][NextLimiter]_vars

(***************************************************************************)
(* useTopStakers.ts: forceRefreshStakers and its cooldown.  The item       *)
(* 'tipn_last_refresh' of localStorage holds Date.now() written in decimal.*)
(* The clock moves in quarters of an hour.  A call is a record of its      *)
(* position, of the holders it fetched and of the table as it was when its *)
(* saveToSupabase began (`before`).                                        *)
(***************************************************************************)
REFRESH_COOLDOWN_MS == 30 * 60 * 1000

\* Number.prototype.toString of a non-negative integer
RECURSIVE NumberToString(_)
NumberToString(n) ==
    IF n < 10 THEN <<Digits[n + 1]>>
    ELSE Append(NumberToString(n \div 10), Digits[(n % 10) + 1])

DigitValue(c) == CHOOSE d \in 0..9 : Digits[d + 1] = c

\* parseInt of a string of decimal digits
RECURSIVE parseInt(_)
parseInt(str) ==
    IF Len(str) = 1 THEN DigitValue(str[1])
    ELSE 10 * parseInt(SubSeq(str, 1, Len(str) - 1)) + DigitValue(str[Len(str)])

\* canRefresh with a strict comparison: a refresh exactly 30 minutes back
\* still blocks
canRefreshStrict(lastRefresh, t) ==
    IF lastRefresh = <<>> THEN TRUE
    ELSE t - parseInt(lastRefresh[1]) > REFRESH_COOLDOWN_MS

\* lines 12-18
canRefresh(lastRefresh, t) ==
    IF lastRefresh = <<>> THEN TRUE
    ELSE t - parseInt(lastRefresh[1]) >= REFRESH_COOLDOWN_MS

\* lines 21-28
getTimeUntilNextRefresh(lastRefresh, t) ==
    IF lastRefresh = <<>> THEN 0
    ELSE Max(0, REFRESH_COOLDOWN_MS - (t - parseInt(lastRefresh[1])))

QuarterHour == 15 * 60 * 1000

RefreshSlots == 1..(MaxCalls + 1)

\* what fetchTopTipnHolders(1000) may resolve with
HolderLists == {<<>>, <<Addr1>>, <<Addr2, Addr1>>}

RefreshIdle == [op |-> "idle"]

\* the table after the identity service enriched the row of Addr1, an hour ago
EnrichedRows ==
    [a \in Pool |->
        IF a = Addr1 THEN <<OldRow(a, FarcasterUserOf(AccountOf(a)), Null, ONE_HOUR)>>
        ELSE <<BlankRow(a)>>]

InitRefresh ==
    /\ now = 0
    /\ requestTimes = <<>>
    /\ store \in {EmptyMap, [a \in Pool |-> <<BlankRow(a)>>], EnrichedRows}
    /\ farcasterCache = EmptyMap
    /\ ensCache = EmptyMap
    /\ calls = [s \in RefreshSlots |-> RefreshIdle]
    /\ ret = NoRet
    /\ NEYNAR_API_KEY = TRUE
    /\ tipn_last_refresh = <<>>
    /\ hook = HookIdle
    /\ currentRpcIndex = 0
    /\ failedRpcs = {}

RefreshReturn(s, error, stakers) ==
    /\ calls' = [calls EXCEPT ![s] = RefreshIdle]
    /\ ret' = [op |-> "forceRefreshStakers", error |-> error, stakers |-> stakers,
               before |-> calls[s].before]

\* lines 129-140: the cooldown test, then the fetch is awaited
ForceRefreshStakers(s) ==
    /\ ret = NoRet
    /\ calls[s].op = "idle"
    /\ \A q \in 1..(s - 1) : calls[q].op # "idle"
    /\ IF ~canRefresh(tipn_last_refresh, now)
       THEN /\ ret' = [op |-> "forceRefreshStakers", error |-> "cooldown",
                       stakers |-> <<>>,
                       minutes |-> (getTimeUntilNextRefresh(tipn_last_refresh, now)
                                       + 60 * 1000 - 1) \div (60 * 1000)]
            /\ calls' = calls
       ELSE /\ calls' = [calls EXCEPT ![s] =
                    [op |-> "forceRefreshStakers", pc |-> "fetch", freshStakers |-> <<>>,
                     before |-> store]]
            /\ ret' = NoRet
    /\ UNCHANGED <<now, requestTimes, store, farcasterCache, ensCache, NEYNAR_API_KEY,
                   tipn_last_refresh, hook, currentRpcIndex, failedRpcs>>

\* line 140 settles: the holders, or a throw (lines 151-154)
FetchTopTipnHoldersDone(s) ==
    /\ ret = NoRet
    /\ calls[s].op = "forceRefreshStakers"
    /\ calls[s].pc = "fetch"
    /\ \/ RefreshReturn(s, "failed", <<>>)
       \/ \E holders \in HolderLists :
            /\ calls' = [calls EXCEPT ![s] = [@ EXCEPT !.pc = "delete",
                                                       !.freshStakers = holders,
                                                       !.before = store]]
            /\ ret' = NoRet
    /\ UNCHANGED <<now, requestTimes, store, farcasterCache, ensCache, NEYNAR_API_KEY,
                   tipn_last_refresh, hook, currentRpcIndex, failedRpcs>>

\* saveToSupabase, line 36 settles: the rows are deleted, or the delete failed
\* (its error is not looked at); with no holder to insert the save is over and
\* lines 146-149 follow
DeleteDone(s) ==
    /\ ret = NoRet
    /\ calls[s].op = "forceRefreshStakers"
    /\ calls[s].pc = "delete"
    /\ store' \in {EmptyMap, store}
    /\ IF calls[s].freshStakers = <<>>
       THEN /\ tipn_last_refresh' = <<NumberToString(now)>>
            /\ RefreshReturn(s, "none", calls[s].freshStakers)
       ELSE /\ tipn_last_refresh' = tipn_last_refresh
            /\ calls' = [calls EXCEPT ![s] = [@ EXCEPT !.pc = "insert"]]
            /\ ret' = NoRet
    /\ UNCHANGED <<now, requestTimes, farcasterCache, ensCache, NEYNAR_API_KEY, hook,
                   currentRpcIndex, failedRpcs>>

\* saveToSupabase, line 49 settles (one batch: fewer than 1000 holders): the
\* rows are inserted and lines 146-149 follow, or the insert failed and the
\* error is thrown on (lines 50, 56-59, 151-154)
InsertDone(s) ==
    /\ ret = NoRet
    /\ calls[s].op = "forceRefreshStakers"
    /\ calls[s].pc = "insert"
    /\ \/ /\ store' = [a \in Pool |->
                          IF a \in Range(calls[s].freshStakers)
                          THEN <<BlankRow(a)>> ELSE store[a]]
          /\ tipn_last_refresh' = <<NumberToString(now)>>
          /\ RefreshReturn(s, "none", calls[s].freshStakers)
       \/ /\ store' = store
          /\ tipn_last_refresh' = tipn_last_refresh
          /\ RefreshReturn(s, "failed", <<>>)
    /\ UNCHANGED <<now, requestTimes, farcasterCache, ensCache, NEYNAR_API_KEY, hook,
                   currentRpcIndex, failedRpcs>>

\* a quarter of an hour passes
RefreshTick ==
    /\ ret = NoRet
    /\ now < MaxQuarters * QuarterHour
    /\ now' = now + QuarterHour
    /\ UNCHANGED <<requestTimes, store, farcasterCache, ensCache, calls, ret,
                   NEYNAR_API_KEY, tipn_last_refresh, hook, currentRpcIndex, failedRpcs>>

NextRefresh ==
    \/ Deliver
    \/ RefreshTick
    \/ \E s \in RefreshSlots : ForceRefreshStakers(s)
    \/ \E s \in RefreshSlots : FetchTopTipnHoldersDone(s)
    \/ \E s \in RefreshSlots : DeleteDone(s)
    \/ \E s \in RefreshSlots : InsertDone(s)

SpecRefresh == InitRefresh /\ [][NextRefresh]_vars

(***************************************************************************)
(* What the service handed back in the last step.                          *)
(***************************************************************************)
\* the identities of the last return of getIdentityWithCache (its value) or
\* batchGetIdentitiesWithCache (the values of its Map)
Returned ==
    IF ret = NoRet THEN {}
    ELSE IF ret.op = "getIdentityWithCache" THEN {ret.identity[1]}
    ELSE IF ret.op = "batchGetIdentitiesWithCache"
    THEN {ret.results[a][1] : a \in {b \in Pool : ret.results[b] # <<>>}}
    ELSE {}

\* the value getIdentityWithCache(address) resolves to from the present state
\* when the store query does outs and the providers answer fc and en
ResolveOne(address, outs, fc, en) ==
    LET normalizedAddress == toLowerCase(address)
        cached == loadCachedIdentities(<<normalizedAddress>>, store, outs)
        d == GetIdentityDecision(address, cached, requestTimes, now)
    IN  IF d.kind = "return" THEN d.identity
        ELSE convertToDisplayIdentity(
                 FreshIdentityRecord(normalizedAddress, fc,
                     resolveName(en, resolveBasename(normalizedAddress)), now))

(***************************************************************************)
(* Properties.                                                             *)
(***************************************************************************)
\* C1: at every instant the number of usage timestamps the RateLimiter holds
\* within the trailing hour is at most MAX_REQUESTS_PER_HOUR.
UsageWithinCeiling ==
    Cardinality({k \in DOMAIN requestTimes : requestTimes[k] > now - ONE_HOUR})
        <= MAX_REQUESTS_PER_HOUR

\* C2: the Map batchGetIdentitiesWithCache returns has exactly the distinct
\* lowercased input addresses as its keys.
BatchMapIsTotal ==
    (ret # NoRet /\ ret.op = "batchGetIdentitiesWithCache")
        => {a \in Pool : ret.results[a] # <<>>} = Range(ret.addresses)

\* C3: batchGetIdentitiesWithCache issues a live refresh for exactly the first
\* min(MAX_REQUESTS_PER_HOUR - usage, number of needs-refresh addresses)
\* needs-refresh addresses, in the caller's order (ret.maxFreshRequests is that
\* minimum as computed at line 1156).
BatchRefreshesFirstAllowed ==
    (ret # NoRet /\ ret.op = "batchGetIdentitiesWithCache")
        => ret.attempted = Slice(ret.needsFresh, 0, Max(0, ret.maxFreshRequests))

\* C4: getIdentityWithCache and batchGetIdentitiesWithCache complete with an
\* identity for every requested address, whatever the providers, the store and
\* the rate limiter did.
EveryRequestAnswered ==
    /\ (ret # NoRet /\ ret.op = "getIdentityWithCache")
           => /\ ret.identity # <<>>
              /\ ret.identity[1].address = toLowerCase(ret.addresses[1])
    /\ (ret # NoRet /\ ret.op = "batchGetIdentitiesWithCache")
           => \A k \in DOMAIN ret.addresses :
                  /\ ret.results[ret.addresses[k]] # <<>>
                  /\ ret.results[ret.addresses[k]][1].address = ret.addresses[k]

\* C5: every identity returned by getIdentityWithCache or
\* batchGetIdentitiesWithCache has a non-empty displayName.
DisplayNameNeverEmpty ==
    \A id \in Returned : Truthy(id.displayName)

\* a batch that answered one address with a Farcaster identity named by its
\* username (the account has no display name) and another address-only
DisplayNameNeverEmptyWitness ==
    /\ ret # NoRet
    /\ ret.op = "batchGetIdentitiesWithCache"
    /\ \E id \in Returned : id.identityType = "address" /\ Len(id.displayName) = 13
    /\ \E id \in Returned : /\ id.identityType = "farcaster"
                            /\ id.displayName = id.farcaster.username

\* C6: when a Farcaster profile is among the fragments, the kind is farcaster
\* and the display name is the profile's display name, whatever names are
\* present too: in the record built at refresh time, in the identity made of
\* it, and in the identity rebuilt from a stored record.
SocialFragmentWins ==
    /\ (ret # NoRet /\ ret.op = "fetchFreshIdentity" /\ ret.farcasterUser # NoUser)
           => /\ ret.cached.identity_type = "farcaster"
              /\ ret.cached.display_name = ret.farcasterUser.displayName
              /\ ret.identity[1].identityType = "farcaster"
              /\ ret.identity[1].displayName = ret.farcasterUser.displayName
    /\ (ret # NoRet /\ ret.op = "convertToDisplayIdentity"
                    /\ Truthy(ret.cached.farcaster_username))
           => /\ ret.identity[1].identityType = "farcaster"
              /\ ret.identity[1].displayName = ret.cached.farcaster_display_name

\* an identity rebuilt from a stored record that holds a Farcaster profile, an
\* ENS name and a basename
SocialFragmentWinsWitness ==
    /\ ret # NoRet
    /\ ret.op = "convertToDisplayIdentity"
    /\ Truthy(ret.cached.farcaster_username)
    /\ Truthy(ret.cached.ens_name)
    /\ Truthy(ret.cached.basename)
    /\ ret.identity[1].identityType = "farcaster"

\* the kind and the name C7 selects from a basename b and an ENS name e
NameChoice(b, e, address) ==
    IF Truthy(b) THEN <<"basename", b>>
    ELSE IF Truthy(e) THEN <<"ens", e>>
    ELSE <<"address", TruncatedAddress(address)>>

\* C7: without a Farcaster profile the kind is basename if a basename is
\* present, else ens if an ENS name is present, else address, and the display
\* name is the name of that kind alone: at refresh time and when rebuilt from
\* a stored record.
NamePriorityWithoutSocial ==
    /\ (ret # NoRet /\ ret.op = "fetchFreshIdentity" /\ ret.farcasterUser = NoUser)
           => LET want == NameChoice(ret.ensData.basename, ret.ensData.ens,
                                     ret.cached.address)
              IN  /\ <<ret.cached.identity_type, ret.cached.display_name>> = want
                  /\ <<ret.identity[1].identityType, ret.identity[1].displayName>> = want
    /\ (ret # NoRet /\ ret.op = "convertToDisplayIdentity"
                    /\ ~Truthy(ret.cached.farcaster_username))
           => <<ret.identity[1].identityType, ret.identity[1].displayName>>
                  = NameChoice(ret.cached.basename, ret.cached.ens_name,
                               ret.cached.address)

\* a refresh that found no Farcaster profile but both names, and chose the
\* basename
NamePriorityWithoutSocialWitness ==
    /\ ret # NoRet
    /\ ret.op = "fetchFreshIdentity"
    /\ ret.farcasterUser = NoUser
    /\ Truthy(ret.ensData.basename)
    /\ Truthy(ret.ensData.ens)
    /\ ret.identity[1].identityType = "basename"
    /\ ret.identity[1].displayName = ret.ensData.basename

\* C8: every identity returned by getIdentityWithCache or
\* batchGetIdentitiesWithCache has hasVerifiedIdentity true exactly when its
\* kind is not address.
VerifiedIffNotAddressOnly ==
    \A id \in Returned : id.hasVerifiedIdentity <=> (id.identityType # "address")

\* getIdentityWithCache answered from the store alone, without a refresh, with
\* an identity of a kind other than address
VerifiedIffNotAddressOnlyWitness ==
    /\ ret # NoRet
    /\ ret.op = "getIdentityWithCache"
    /\ ret.attempted = <<>>
    /\ ret.identity[1].identityType # "address"
    /\ ret.identity[1].hasVerifiedIdentity

\* C9: every returned identity without a Farcaster profile, an ENS name or a
\* basename is unverified, of kind address, and displays the first six
\* characters, '...', and the last four characters of the lowercase address.
AddressOnlyIsCanonical ==
    \A id \in Returned :
        (id.farcaster = NoUser /\ ~Truthy(id.ens) /\ ~Truthy(id.basename))
            => /\ ~id.hasVerifiedIdentity
               /\ id.identityType = "address"
               /\ id.displayName = TruncatedAddress(toLowerCase(id.address))

\* C10: from every state in which a call can start, and with the same store
\* and provider answers, getIdentityWithCache(addr) and
\* getIdentityWithCache(addr.toUpperCase()) resolve to the same identity.
CaseInsensitiveResolveOne ==
    (\E s \in Slots : Free(s)) =>
        \A a \in Pool, outs \in [1..NumChunks(1) -> QueryOutcomes] :
            \A fc \in FarcasterAnswers(a), en \in EnsAnswers(a) :
                ResolveOne(a, outs, fc, en) = ResolveOne(toUpperCase(a), outs, fc, en)

\* a loaded entry (an option) whose record is at most seven days old
WithinTtl(entry) ==
    /\ entry # <<>>
    /\ entry[1].identity_last_updated # <<>>
    /\ now - entry[1].identity_last_updated[1] <= 7 * 24 * 60 * 60 * 1000

\* C11: in one batchGetIdentitiesWithCache call an address whose loaded record
\* is at most seven days old is answered from that record and no lookup is
\* issued for it; any other address is put in needsFresh, and is refreshed when
\* it is among the first maxFreshRequests of them (unless the capacity was used
\* up meanwhile).
FreshnessGate ==
    (ret # NoRet /\ ret.op = "batchGetIdentitiesWithCache") =>
        \A k \in DOMAIN ret.addresses :
            LET a == ret.addresses[k]
            IN  IF WithinTtl(ret.cached[a])
                THEN /\ a \notin Range(ret.attempted)
                     /\ a \notin Range(ret.needsFresh)
                     /\ ret.results[a] = <<convertToDisplayIdentity(ret.cached[a][1])>>
                ELSE /\ a \in Range(ret.needsFresh)
                     /\ (\E j \in DOMAIN ret.needsFresh :
                            ret.needsFresh[j] = a /\ j <= ret.maxFreshRequests)
                          => \/ a \in Range(ret.attempted)
                             \/ ~canMakeRequest(requestTimes, now)

\* a batch over one address with a record of this hour, answered from it, and
\* one with a record older than seven days, refreshed
FreshnessGateWitness ==
    /\ ret # NoRet
    /\ ret.op = "batchGetIdentitiesWithCache"
    /\ \E a \in Range(ret.addresses) :
          WithinTtl(ret.cached[a]) /\ a \notin Range(ret.attempted)
    /\ \E a \in Range(ret.addresses) :
          /\ ret.cached[a] # <<>>
          /\ ~WithinTtl(ret.cached[a])
          /\ ret.cached[a][1].identity_last_updated # <<>>
          /\ a \in Range(ret.attempted)

\* the identity synthesized for address a when nothing is known of it
IsAddressOnlyDefault(id, a) ==
    /\ id.address = a
    /\ id.farcaster = NoUser
    /\ ~Truthy(id.ens)
    /\ ~Truthy(id.basename)
    /\ id.identityType = "address"
    /\ ~id.hasVerifiedIdentity

\* answer `answer` (an option) is the stale record of `entry`, or the
\* synthesized identity when there is no record
IsStaleOrDefault(entry, answer, a) ==
    /\ answer # <<>>
    /\ IF entry # <<>> THEN answer[1] = convertToDisplayIdentity(entry[1])
       ELSE IsAddressOnlyDefault(answer[1], a)

\* C12: a needs-refresh address that is not refreshed for want of capacity is
\* answered from its stale record, or with the synthesized address-only
\* identity when it has none: in batchGetIdentitiesWithCache for the
\* needs-refresh addresses beyond the allowance, in getIdentityWithCache when
\* no refresh was made.
StaleFallbackWhenExhausted ==
    /\ (ret # NoRet /\ ret.op = "batchGetIdentitiesWithCache") =>
           \A j \in DOMAIN ret.needsFresh :
               j > ret.maxFreshRequests =>
                   IsStaleOrDefault(ret.cached[ret.needsFresh[j]],
                                    ret.results[ret.needsFresh[j]], ret.needsFresh[j])
    /\ (ret # NoRet /\ ret.op = "getIdentityWithCache") =>
           LET a == toLowerCase(ret.addresses[1])
           IN  (~WithinTtl(ret.cached[a]) /\ ret.attempted = <<>>) =>
                   IsStaleOrDefault(ret.cached[a], ret.identity, a)

\* C13: when getIdentityWithCache or batchGetIdentitiesWithCache returns, the
\* store update of every address it refreshed has been issued and has settled.
SaveSettledBeforeReturn ==
    (ret # NoRet /\ ret.op \in {"getIdentityWithCache", "batchGetIdentitiesWithCache"})
        => \A k \in DOMAIN ret.attempted : toLowerCase(ret.attempted[k]) \in ret.saved

\* a batch that refreshed two different addresses and returns after both
\* store updates
SaveSettledBeforeReturnWitness ==
    /\ ret # NoRet
    /\ ret.op = "batchGetIdentitiesWithCache"
    /\ Cardinality(Range(ret.attempted)) = 2
    /\ ret.saved = Range(ret.attempted)

\* the addresses for which a Farcaster lookup has been made and answered (the
\* API key being set, an entry of farcasterCache is the answer to a lookup)
LookedUp == {a \in Pool : farcasterCache[a] # <<>>}

\* C14: the limiter bounds the Farcaster lookups: every lookup made is counted
\* as usage, found an account or not, so that at most MAX_REQUESTS_PER_HOUR
\* lookups are made within the hour.
LookupsCountedAndBounded ==
    /\ Cardinality(LookedUp) <= Len(PurgedTimes(requestTimes, now))
    /\ Cardinality(LookedUp) <= MAX_REQUESTS_PER_HOUR

\* C15: the name-service lookups are made for every needs-refresh address,
\* whatever the capacity of the limiter: for every address of needsFresh in
\* batchGetIdentitiesWithCache, and in getIdentityWithCache whenever the
\* record is missing or older than seven days.
NameLookupsAlwaysAttempted ==
    /\ (ret # NoRet /\ ret.op = "batchGetIdentitiesWithCache")
           => Range(ret.needsFresh) \subseteq Range(ret.attempted)
    /\ (ret # NoRet /\ ret.op = "getIdentityWithCache")
           => (~WithinTtl(ret.cached[toLowerCase(ret.addresses[1])])
                   => ret.attempted # <<>>)

\* the refreshes in flight that passed the capacity check and have not yet
\* reached the line that records their usage
PassedNotRecorded ==
    {<<s, k>> \in Slots \X (1..MAX_BATCH_SIZE) :
        k <= Len(calls[s].items) /\ calls[s].items[k].pc = "providers"}

\* C16: check and record are one step, so no two refreshes pass the check for
\* the same last slot: the usage recorded within the hour together with the
\* refreshes that passed the check and are still to record never exceed
\* MAX_REQUESTS_PER_HOUR.
CheckAndRecordAtomic ==
    Len(PurgedTimes(requestTimes, now)) + Cardinality(PassedNotRecorded)
        <= MAX_REQUESTS_PER_HOUR

\* C17: forceRefreshIdentities refreshes, whatever the age of their records,
\* the given addresses in input order up to the capacity left at call time
\* (ret.maxFreshRequests is 10 minus usage at the call), stopping short only
\* when the limiter has no capacity left; the count it returns is the number
\* refreshed, at most the capacity and at most the number of addresses.
ForceRefreshWithinCapacity ==
    (ret # NoRet /\ ret.op = "forceRefreshIdentities") =>
        LET allowed == Slice(ret.addresses, 0, Max(0, ret.maxFreshRequests))
        IN  /\ Len(ret.attempted) <= Len(allowed)
            /\ ret.attempted = SubSeq(allowed, 1, Len(ret.attempted))
            /\ Len(ret.attempted) < Len(allowed) => ~canMakeRequest(requestTimes, now)
            /\ ret.refreshed = Len(ret.attempted)
            /\ ret.refreshed <= Max(0, ret.maxFreshRequests)
            /\ ret.refreshed <= Len(ret.addresses)

\* forceRefreshIdentities of two addresses with capacity for one: the first is
\* refreshed and 1 is returned
ForceRefreshWithinCapacityWitness ==
    /\ ret # NoRet
    /\ ret.op = "forceRefreshIdentities"
    /\ ret.maxFreshRequests = 1
    /\ Len(ret.addresses) = 2
    /\ ret.attempted = <<ret.addresses[1]>>
    /\ ret.refreshed = 1

\* the refreshes in flight
ItemsInFlight ==
    {calls[s].items[k] : <<s, k>> \in
        {<<s, k>> \in Slots \X (1..MAX_BATCH_SIZE) : k <= Len(calls[s].items)}}

ExpectedChunk(addresses, c) ==
    [j \in 1..(Min(100 * c, Len(addresses)) - 100 * (c - 1)) |->
        toLowerCase(addresses[100 * (c - 1) + j])]

\* C19: loadCachedIdentities over n addresses issues exactly ceil(n / 100)
\* queries, one after the other, the c-th over the c-th consecutive slice of at
\* most 100 lowercased addresses.
LoadQueriesAreChunks ==
    (ret # NoRet /\ ret.op = "loadCachedIdentities") =>
        /\ Len(ret.queries) = (Len(ret.addresses) + 99) \div 100
        /\ \A c \in DOMAIN ret.queries : ret.queries[c] = ExpectedChunk(ret.addresses, c)

\* C20: when a query of loadCachedIdentities fails, by an error or by throwing,
\* only the addresses of its chunk are missing from the returned Map: every
\* chunk is queried, and the rows of every chunk whose query gave data are
\* returned.
LoadFailureIsLocal ==
    (ret # NoRet /\ ret.op = "loadCachedIdentities") =>
        /\ Len(ret.outcomes) = (Len(ret.addresses) + 99) \div 100
        /\ \A k \in DOMAIN ret.addresses :
               LET key == toLowerCase(ret.addresses[k])
                   c == (k - 1) \div 100 + 1
               IN  c <= Len(ret.outcomes) =>
                       ret.cached[key] = IF ret.outcomes[c] = "data" THEN store[key]
                                         ELSE <<>>

\* C21: when the store update of a refresh changes nothing in the store (it
\* failed), getIdentityWithCache returns, and batchGetIdentitiesWithCache puts
\* in its results, the identity the providers resolved, the same as after an
\* update that succeeded.
SaveFailureKeepsIdentity ==
    [][\A s \in Slots, k \in 1..MAX_BATCH_SIZE :
          (/\ k <= Len(calls[s].items)
           /\ calls[s].items[k].pc = "save"
           /\ store' = store
           /\ calls'[s] # calls[s])
          => LET item == calls[s].items[k]
                 shown == <<convertToDisplayIdentity(item.identity)>>
             IN  CASE calls[s].op = "getIdentityWithCache" ->
                        ret' # NoRet /\ ret'.identity = shown
                   [] calls[s].op = "batchGetIdentitiesWithCache" ->
                        \/ calls'[s].results[item.address] = shown
                        \/ calls'[s].items[k].pc = "save"
                   [] OTHER -> TRUE]_vars

\* getIdentityWithCache has returned the Farcaster identity it resolved for an
\* address whose row the update did not reach: the row is still the expired one
SaveFailureKeepsIdentityWitness ==
    /\ ret # NoRet
    /\ ret.op = "getIdentityWithCache"
    /\ ret.attempted # <<>>
    /\ LET a == toLowerCase(ret.addresses[1])
       IN  /\ a \in ret.failed
           /\ store[a] # <<>>
           /\ store[a] = ret.cached[a]
           /\ store[a][1].identity_last_updated # <<now>>
           /\ ret.identity[1].identityType = "farcaster"
           /\ ret.identity[1] # convertToDisplayIdentity(store[a][1])

\* the stored time of the last refresh is less than 30 minutes back
InCooldown ==
    /\ tipn_last_refresh # <<>>
    /\ now - parseInt(tipn_last_refresh[1]) < 30 * 60 * 1000

\* C22: while less than 30 minutes have passed since the last successful
\* forceRefreshStakers, no call is accepted: none starts its fetch, and the
\* call that is rejected changes neither the table nor the stored time; only
\* calls made within the cooldown are rejected; and the stored time is written
\* only in the step that returns a successful refresh, after its fetch and its
\* save, with the time of that step.
CooldownGate ==
    [][/\ InCooldown => \A s \in RefreshSlots :
                            calls[s].op = "idle" => calls'[s].op = "idle"
       /\ (ret' # NoRet /\ ret = NoRet /\ ret'.error = "cooldown")
              => InCooldown /\ store' = store /\ calls' = calls
                    /\ tipn_last_refresh' = tipn_last_refresh
       /\ tipn_last_refresh' # tipn_last_refresh
              => /\ ret' # NoRet
                 /\ ret'.error = "none"
                 /\ tipn_last_refresh' = <<NumberToString(now)>>
                 /\ \E s \in RefreshSlots :
                       /\ calls[s].op = "forceRefreshStakers"
                       /\ calls[s].pc \in {"delete", "insert"}
                       /\ calls'[s].op = "idle"
                       /\ ret'.stakers = calls[s].freshStakers
                       /\ \A a \in Range(ret'.stakers) : store'[a] # <<>>
       /\ (ret' # NoRet /\ ret = NoRet /\ ret'.error = "failed")
              => tipn_last_refresh' = tipn_last_refresh]_vars

\* a call rejected a quarter of an hour after a successful refresh
CooldownGateWitness ==
    /\ ret # NoRet
    /\ ret.op = "forceRefreshStakers"
    /\ ret.error = "cooldown"
    /\ ret.minutes = 15
    /\ now - parseInt(tipn_last_refresh[1]) = 15 * 60 * 1000

\* the identity the last lookups of address a resolved, as the service shows it
ResolvedDisplay(a) ==
    convertToDisplayIdentity(
        FreshIdentityRecord(a, farcasterCache[a][1],
                            resolveName(ensCache[a][1], resolveBasename(a)), now))

\* how many times address a occurs in the list
Occurrences(list, a) == Cardinality({j \in DOMAIN list : list[j] = a})

\* C23: in one batchGetIdentitiesWithCache call the result of an address is
\* written once: an address (given once) whose refresh was attempted and
\* succeeded is returned with the refreshed identity, never with the stale or
\* the address-only identity written over it.
RefreshedResultIsFinal ==
    (ret # NoRet /\ ret.op = "batchGetIdentitiesWithCache") =>
        \A j \in DOMAIN ret.attempted :
            LET a == ret.attempted[j]
            IN  Occurrences(ret.addresses, a) = 1
                    => ret.results[a] = <<ResolvedDisplay(a)>>

\* C30: in one batchGetIdentitiesWithCache call no address is refreshed more
\* than once, however many times and in whatever letter case the list names
\* it, and it takes at most one place among the first maxFreshRequests
\* addresses of needsFresh.
OneRefreshPerAddress ==
    (ret # NoRet /\ ret.op = "batchGetIdentitiesWithCache") =>
        \A a \in Pool :
            /\ Occurrences(ret.attempted, a) <= 1
            /\ Occurrences(Slice(ret.needsFresh, 0, Max(0, ret.maxFreshRequests)), a) <= 1

\* the record of address a with no fragment, written at time t
NullRecord(a, t) == FreshIdentityRecord(a, NoUser, NoNames, t)

\* in this step the store update of item k of call s settles without an error
SaveSucceeds(s, k) ==
    /\ k <= Len(calls[s].items)
    /\ calls[s].items[k].pc = "save"
    /\ \/ calls'[s].op = "idle"
       \/ Len(calls'[s].items) < k
       \/ calls'[s].items[k].pc = "settled"
    /\ calls[s].items[k].address \notin
           (IF ret' # NoRet THEN ret'.failed ELSE calls'[s].failed)

\* C28: a refresh whose lookups gave nothing (they failed, or found nothing)
\* overwrites the row of the address with a record without fragments stamped
\* now: nothing of what an earlier refresh stored is kept, the row counts as
\* fresh, and getIdentityWithCache answers from it, address-only, without a
\* new refresh.
FailedLookupPoisonsRecord ==
    [][\A s \in Slots, k \in 1..MAX_BATCH_SIZE :
          (SaveSucceeds(s, k) /\ store[calls[s].items[k].address] # <<>>
              /\ calls[s].items[k].farcasterUser = <<NoUser>>
              /\ calls[s].items[k].ens = <<Null>>)
          => LET a == calls[s].items[k].address
                 d == GetIdentityDecision(a, store', requestTimes', now')
             IN  /\ store'[a] = <<NullRecord(a, now)>>
                 /\ IsFreshEntry(store'[a], now')
                 /\ d.kind = "return"
                 /\ IsAddressOnlyDefault(d.identity, a)]_vars

\* the row that held a Farcaster account now holds the record without
\* fragments that the last call wrote
FailedLookupPoisonsRecordWitness ==
    /\ ret # NoRet
    /\ ret.op = "getIdentityWithCache"
    /\ ret.attempted # <<>>
    /\ LET a == toLowerCase(ret.addresses[1])
       IN  /\ a \notin ret.failed
           /\ ret.cached[a] # <<>>
           /\ ret.cached[a][1].identity_type = "farcaster"
           /\ store[a] = <<NullRecord(a, now)>>

\* C29: after getIdentityWithCache or batchGetIdentitiesWithCache has
\* refreshed an address that had no row, the store update not having failed,
\* the store holds a row for the address stamped with the time of the refresh,
\* and the row counts as fresh.
RecordCreatedOnFirstRefresh ==
    (ret # NoRet /\ ret.op \in {"getIdentityWithCache", "batchGetIdentitiesWithCache"})
        => \A j \in DOMAIN ret.attempted :
               LET a == toLowerCase(ret.attempted[j])
               IN  (a \in ret.saved /\ a \notin ret.failed /\ ret.cached[a] = <<>>)
                       => /\ store[a] # <<>>
                          /\ store[a][1].identity_last_updated = <<now>>
                          /\ IsFreshEntry(store[a], now)

\* the requests of the list made less than one hour before now
WithinTheHour(times) == {j \in DOMAIN times : now - times[j] < 60 * 60 * 1000}

\* C26: canMakeRequest drops the requests made an hour ago or more before it
\* compares: it leaves none of them in the list, its answer counts only the
\* requests of the last hour, and with a full window (ten requests) it answers
\* true once one hour has passed since the oldest of them.
OldRequestsNeverBlock ==
    (ret # NoRet /\ ret.op = "canMakeRequest") =>
        /\ \A j \in DOMAIN requestTimes : now - requestTimes[j] < 60 * 60 * 1000
        /\ Len(requestTimes) = Cardinality(WithinTheHour(ret.before))
        /\ ret.value = (Cardinality(WithinTheHour(ret.before)) < 10)
        /\ (/\ Len(ret.before) = 10
            /\ \E j \in DOMAIN ret.before : now - ret.before[j] >= 60 * 60 * 1000)
               => ret.value

\* ten requests in the list, the oldest an hour old, and canMakeRequest
\* answers true
OldRequestsNeverBlockWitness ==
    /\ ret # NoRet
    /\ ret.op = "canMakeRequest"
    /\ Len(ret.before) = 10
    /\ \E j \in DOMAIN ret.before : now - ret.before[j] = 60 * 60 * 1000
    /\ \E j \in DOMAIN ret.before : now - ret.before[j] < 60 * 60 * 1000
    /\ ret.value

\* C27: getTimeUntilNextRequest answers 0 for an empty list, never a negative
\* time, and otherwise the time after which the oldest request of the list is
\* out of the one-hour window: at now + value the purge drops it, and, value
\* being positive, one millisecond earlier it does not.
TimeUntilOldestLeaves ==
    (ret # NoRet /\ ret.op = "getTimeUntilNextRequest") =>
        /\ ret.value >= 0
        /\ requestTimes = <<>> => ret.value = 0
        /\ requestTimes # <<>> =>
               \E j \in DOMAIN requestTimes :
                   /\ \A i \in DOMAIN requestTimes : requestTimes[j] <= requestTimes[i]
                   /\ PurgedTimes(<<requestTimes[j]>>, now + ret.value) = <<>>
                   /\ ret.value > 0 =>
                          PurgedTimes(<<requestTimes[j]>>, now + ret.value - 1) # <<>>

\* half an hour is left for a list whose oldest request is half an hour old
\* and which holds a newer one
TimeUntilOldestLeavesWitness ==
    /\ ret # NoRet
    /\ ret.op = "getTimeUntilNextRequest"
    /\ ret.value = 30 * 60 * 1000
    /\ \E j \in DOMAIN requestTimes : requestTimes[j] = now

\* the refreshes of call s that are in flight: lookups or store update pending
InFlight(s) ==
    {k \in DOMAIN calls[s].items : calls[s].items[k].pc \in {"providers", "save"}}

\* C24: in batchGetIdentitiesWithCache the refreshes in flight are those of one
\* chunk of needsFresh, never more than 5, and the call goes on to the next
\* chunk, or returns, only when every refresh of the chunk, its store update
\* included, has settled.
ChunksAreSerial ==
    /\ [](\A s \in ChunkSlots :
            calls[s].op = "batchGetIdentitiesWithCache" =>
                /\ Cardinality(InFlight(s)) <= 5
                /\ [k \in DOMAIN calls[s].items |-> calls[s].items[k].address]
                       = Slice(calls[s].needsFresh, calls[s].i, calls[s].i + 5))
    /\ [][\A s \in ChunkSlots :
            (/\ calls[s].op = "batchGetIdentitiesWithCache"
             /\ \/ calls'[s].op = "idle"
                \/ calls'[s].i # calls[s].i)
            => InFlight(s) = {}]_vars

\* the second chunk of a batch is in flight, after the five refreshes of the
\* first
ChunksAreSerialWitness ==
    \E s \in ChunkSlots :
        /\ calls[s].op = "batchGetIdentitiesWithCache"
        /\ calls[s].i = 5
        /\ Len(calls[s].attempted) = 7
        /\ Cardinality(InFlight(s)) = 2

\* C25: the failures of a chunk stay with their addresses: when the refreshes
\* of a chunk fail at the rate limit, the addresses refreshed before keep
\* their place, every address of needsFresh has a result, and each address
\* whose refresh failed has its stale record, or the address-only identity
\* when it has no record.
ChunkFailuresAreIsolated ==
    (ret # NoRet /\ ret.op = "batchGetIdentitiesWithCache" /\ ret.maxFreshRequests > 0) =>
        /\ \A j \in DOMAIN ret.needsFresh : ret.results[ret.needsFresh[j]] # <<>>
        /\ \A j \in DOMAIN ret.attempted : ret.attempted[j] = ret.needsFresh[j]
        /\ \A j \in (Len(ret.attempted) + 1)..ret.maxFreshRequests :
               IsStaleOrDefault(ret.cached[ret.needsFresh[j]],
                                ret.results[ret.needsFresh[j]], ret.needsFresh[j])

\* a batch of seven whose first chunk was refreshed and whose second chunk, of
\* two addresses, failed at the rate limit: one has its stale record, the other
\* the address-only identity
ChunkFailuresAreIsolatedWitness ==
    /\ ret # NoRet
    /\ ret.op = "batchGetIdentitiesWithCache"
    /\ ret.maxFreshRequests = 7
    /\ Len(ret.attempted) = 5
    /\ ret.cached[ret.needsFresh[7]] # <<>>
    /\ ret.results[ret.needsFresh[7]]
           = <<convertToDisplayIdentity(ret.cached[ret.needsFresh[7]][1])>>
    /\ ret.cached[ret.needsFresh[6]] = <<>>
    /\ IsAddressOnlyDefault(ret.results[ret.needsFresh[6]][1], ret.needsFresh[6])

(***************************************************************************)
(* getRateLimitStatus, read by a caller between the steps of the service.  *)
(* Nine requests were recorded within the hour; no address has a row.      *)
(***************************************************************************)
InitStatus ==
    /\ now = 0
    /\ requestTimes = [j \in 1..(MAX_REQUESTS_PER_HOUR - 1) |-> 0]
    /\ store = EmptyMap
    /\ farcasterCache = EmptyMap
    /\ ensCache = EmptyMap
    /\ calls = [s \in Slots |-> IdleCall]
    /\ ret = NoRet
    /\ NEYNAR_API_KEY = TRUE
    /\ tipn_last_refresh = <<>>
    /\ hook = HookIdle
    /\ currentRpcIndex = 0
    /\ failedRpcs = {}

\* the snapshot of lines 1288-1297 taken of the list `times` at time t
RateLimitStatus(times, t) ==
    LET requestsUsed == getRequestCount(times, t)
        requestsRemaining == MAX_REQUESTS_PER_HOUR - requestsUsed
        purged == PurgedTimes(times, t)
    IN  [op                |-> "getRateLimitStatus",
         requestsUsed      |-> requestsUsed,
         requestsRemaining |-> requestsRemaining,
         timeUntilReset    |-> getTimeUntilNextRequest(purged, t),
         canMakeRequest    |-> canMakeRequest(purged, t)]

\* getRateLimitStatus(), lines 1282-1298: synchronous, callable at any time;
\* getRequestCount and canMakeRequest purge the list
GetRateLimitStatus ==
    /\ ret = NoRet
    /\ requestTimes' = PurgedTimes(requestTimes, now)
    /\ ret' = RateLimitStatus(requestTimes, now)
    /\ UNCHANGED <<now, store, farcasterCache, ensCache, calls, NEYNAR_API_KEY,
                   tipn_last_refresh, hook, currentRpcIndex, failedRpcs>>

NextStatus ==
    \/ Deliver
    \/ GetRateLimitStatus
    \/ \E s \in Slots, address \in AddressForms : GetIdentityWithCache(s, address)
    \/ \E s \in Slots, addresses \in AddressLists : BatchGetIdentitiesWithCache(s, addresses)
    \/ \E s \in Slots : BatchChunkSettled(s)
    \/ \E s \in Slots, k \in 1..MAX_BATCH_SIZE : ProvidersDone(s, k)
    \/ \E s \in Slots, k \in 1..MAX_BATCH_SIZE : SaveDone(s, k)

SpecStatus == InitStatus /\ [][NextStatus]_vars

\* C31: every snapshot getRateLimitStatus returns has
\* 0 <= requestsRemaining <= MAX_REQUESTS_PER_HOUR,
\* requestsUsed + requestsRemaining = MAX_REQUESTS_PER_HOUR and
\* canMakeRequest = (requestsRemaining > 0).
StatusSnapshotConsistent ==
    (ret # NoRet /\ ret.op = "getRateLimitStatus") =>
        /\ 0 <= ret.requestsRemaining
        /\ ret.requestsRemaining <= MAX_REQUESTS_PER_HOUR
        /\ ret.requestsUsed + ret.requestsRemaining = MAX_REQUESTS_PER_HOUR
        /\ ret.canMakeRequest = (ret.requestsRemaining > 0)

\* item k of call s in state `cs`, or <<>> when there is none
ItemAt(cs, s, k) == IF k \in DOMAIN cs[s].items THEN <<cs[s].items[k]>> ELSE <<>>

\* C32: every refresh of an address queries the providers anew: an
\* invocation of fetchFreshIdentity comes to hold its answers (it awaits the
\* store update) only by the completion of its own two provider lookups,
\* never at its start from farcasterCache and ensCache, and neither of its
\* lookups is answered at its start by an earlier lookup of the address.
RefreshQueriesProviders ==
    [][\A s \in Slots, k \in 1..MAX_BATCH_SIZE :
          LET before == ItemAt(calls, s, k)
              after  == ItemAt(calls', s, k)
          IN  (after # <<>> /\ after # before /\ after[1].pc \in {"providers", "save"}) =>
                  IF after[1].pc = "providers"
                  THEN after[1].farcasterUser = <<>> /\ after[1].ens = <<>>
                  ELSE /\ before # <<>>
                       /\ before[1].pc = "providers"
                       /\ before[1].address = after[1].address
                       /\ before[1].farcasterUser = <<>>
                       /\ before[1].ens = <<>>]_vars

\* C33: a bulk staker refresh leaves the identity columns and
\* identity_last_updated of every address that remains in the top list
\* unchanged: when forceRefreshStakers returns the holders, each of them that
\* had a row when the save began has the same identity columns as then.
BulkRefreshKeepsIdentity ==
    (ret # NoRet /\ ret.op = "forceRefreshStakers" /\ ret.error = "none") =>
        \A a \in Range(ret.stakers) :
            ret.before[a] # <<>> => store[a] = ret.before[a]

\* the calls of forceRefreshStakers that passed the cooldown test and have
\* not returned
RefreshesInFlight ==
    {s \in DOMAIN calls : calls[s].op = "forceRefreshStakers"}

\* C36: overlapping calls of forceRefreshStakers do not both refresh: while
\* one call is fetching or saving, no second call has passed the canRefresh
\* test.
OneRefreshAtATime == Cardinality(RefreshesInFlight) <= 1

(***************************************************************************)
(* Background enrichment run over and over with a limit of one row, the    *)
(* store working: the query of lines 1306-1311 returns its rows and the    *)
(* update of saveCachedIdentity changes its row.  The lookups answer as    *)
(* the providers do; an address without account or name resolves to        *)
(* address-only.  Up to two requests were recorded within the hour.        *)
(***************************************************************************)
InitEnrich ==
    /\ now = 0
    /\ requestTimes \in {<<>>, <<0>>, <<0, 0>>}
    /\ store \in { st \in [Pool -> UNION {InitialRows(a) : a \in Pool}] :
                      \A a \in Pool : st[a] \in InitialRows(a) }
    /\ farcasterCache = EmptyMap
    /\ ensCache = EmptyMap
    /\ calls = [s \in Slots |-> IdleCall]
    /\ ret = NoRet
    /\ NEYNAR_API_KEY = TRUE
    /\ tipn_last_refresh = <<>>
    /\ hook = HookIdle
    /\ currentRpcIndex = 0
    /\ failedRpcs = {}

\* one run of enrichExistingStakers(1) begins
EnrichRun == \E s \in Slots : EnrichExistingStakers(s, 1)

\* the provider lookups of a run complete
EnrichLookups == \E s \in Slots, k \in 1..MAX_BATCH_SIZE : ProvidersDone(s, k)

\* the store update of a run settles
EnrichSave == \E s \in Slots, k \in 1..MAX_BATCH_SIZE : SaveDone(s, k)

\* the store working: the query of a beginning run returned its rows
EnrichQueryWorked ==
    IF ret' = NoRet THEN TRUE ELSE ret'.needsFresh = StakersToEnrich(store, 1)

\* the store working: no update of the run has failed
EnrichSaveWorked ==
    \A s \in Slots : IF ret' = NoRet THEN calls'[s].failed = {} ELSE ret'.failed = {}

NextEnrich ==
    \/ Deliver
    \/ EnrichRun /\ EnrichQueryWorked
    \/ EnrichLookups
    \/ EnrichSave /\ EnrichSaveWorked

\* enrichment keeps being run (the scheduled handler, the caller's timer) and
\* every run goes on to its end: no await of a run stays pending for ever
SpecEnrich ==
    /\ InitEnrich
    /\ [][NextEnrich]_vars
    /\ WF_vars(Deliver)
    /\ WF_vars(EnrichRun)
    /\ WF_vars(EnrichLookups)
    /\ WF_vars(EnrichSave)

\* the row of address a was never enriched
NeverEnriched(a) ==
    store[a] # <<>> /\ store[a][1].identity_last_updated = <<>>

\* C34: under repeated runs of background enrichment with providers and
\* store working, every staker row whose identity_last_updated is null is
\* eventually enriched (unless the limiter runs out of capacity): rows that
\* resolve to address-only are not selected again and again ahead of it.
EveryStakerEventuallyEnriched ==
    \A a \in Pool :
        NeverEnriched(a) ~> (~NeverEnriched(a) \/ ~canMakeRequest(requestTimes, now))

(***************************************************************************)
(* part_004, useSmartIdentityBatch (enabled, the default): the parent      *)
(* renders the hook with a list of addresses, the effect of lines 370-395  *)
(* runs with the state of that render, and the batch call of a load        *)
(* settles.  The Map of the batch call has an entry for every address      *)
(* asked (usage within the ceiling); the keys of `identities` stand for    *)
(* its entries.                                                            *)
(***************************************************************************)
\* the length of the staker lists the parent passes
MaxHook == 10

\* the top list as the parent passes it
HookTop == [k \in 1..MaxHook |-> LoadAddress(k)]

\* the lists of the parent: none, the top list, the top list with its last
\* address replaced by a newcomer, and two short lists
HookLists ==
    {<<>>, HookTop, [HookTop EXCEPT ![MaxHook] = LoadAddress(MaxHook + 1)],
     <<LoadAddress(1), toLowerCase(LoadAddress(2))>>, <<LoadAddress(MaxHook + 2)>>}

HookKeys == {toLowerCase(LoadAddress(k)) : k \in 1..(MaxHook + 2)}

\* lines 356-368: similarity < 0.9, the quotient compared exactly
hasAddressesChanged(newAddresses, oldAddresses) ==
    IF Len(newAddresses) # Len(oldAddresses) THEN TRUE
    ELSE LET newSet == Range(LowerAll(newAddresses))
             oldSet == Range(LowerAll(oldAddresses))
             intersection == {x \in newSet : x \in oldSet}
             largest == Max(Max(Cardinality(newSet), Cardinality(oldSet)), 1)
         IN  10 * Cardinality(intersection) < 9 * largest

\* loadIdentities up to its await (lines 287-301) called in hook state h
loadIdentities(h, addressesToLoad) ==
    IF addressesToLoad = <<>> \/ h.isLoadingRef THEN h
    ELSE [h EXCEPT !.isLoadingRef = TRUE, !.addressesToLoad = addressesToLoad]

\* the effect of lines 370-395 run in hook state h
HookEffect(h) ==
    LET normalizedAddresses == LowerAll(h.addresses)
        missingAddresses ==
            SelectSeq(normalizedAddresses, LAMBDA addr : toLowerCase(addr) \notin h.identities)
    IN  IF h.addresses = <<>> THEN h
        ELSE IF ~hasAddressesChanged(normalizedAddresses, h.previousAddressesRef) THEN h
        ELSE loadIdentities([h EXCEPT !.previousAddressesRef = normalizedAddresses],
                            missingAddresses)

\* the parent renders the hook with another list; the effect runs
HookRender(addresses) ==
    /\ addresses # hook.addresses
    /\ hook' = HookEffect([hook EXCEPT !.addresses = addresses])
    /\ UNCHANGED <<now, requestTimes, store, farcasterCache, ensCache, calls, ret,
                   NEYNAR_API_KEY, tipn_last_refresh, currentRpcIndex, failedRpcs>>

\* the batch call of the load in flight settles (lines 301-352): resolved,
\* every address asked gets the entry of the Map; rejected, every address
\* asked gets the fallback identity; then the finally block
HookLoadDone ==
    /\ hook.isLoadingRef
    /\ hook' = [hook EXCEPT
                   !.identities = @ \cup Range(LowerAll(hook.addressesToLoad)),
                   !.isLoadingRef = FALSE,
                   !.addressesToLoad = <<>>]
    /\ UNCHANGED <<now, requestTimes, store, farcasterCache, ensCache, calls, ret,
                   NEYNAR_API_KEY, tipn_last_refresh, currentRpcIndex, failedRpcs>>

InitHook ==
    /\ now = 0
    /\ requestTimes = <<>>
    /\ store = EmptyMap
    /\ farcasterCache = EmptyMap
    /\ ensCache = EmptyMap
    /\ calls = [s \in Slots |-> IdleCall]
    /\ ret = NoRet
    /\ NEYNAR_API_KEY = TRUE
    /\ tipn_last_refresh = <<>>
    /\ hook = HookIdle
    /\ currentRpcIndex = 0
    /\ failedRpcs = {}

NextHook ==
    \/ \E addresses \in HookLists : HookRender(addresses)
    \/ HookLoadDone

\* the batch call of a load always settles; the parent may stop changing
\* the list at any time
SpecHook == InitHook /\ [][NextHook]_vars /\ WF_vars(HookLoadDone)

\* address a is in the list the hook was last rendered with
HookPassed(a) == a \in Range(LowerAll(hook.addresses))

\* C35: every address passed to the enabled hook eventually gets an entry in
\* the identities map (or is withdrawn from the list), also when the list
\* changes while a load is in flight and when fewer than 10% of the
\* addresses changed.
EveryPassedAddressLoaded ==
    \A a \in HookKeys : HookPassed(a) ~> (a \in hook.identities \/ ~HookPassed(a))

(***************************************************************************)
(* part_005, rpcClient.ts: executeWithFallback over the six endpoints,     *)
(* with calls overlapping.  A call is a record of its position ("attempt"  *)
(* while the health check and the operation are awaited, "wait" during the *)
(* pause before a retry), its loop counter and the rpcUrl of its attempt.  *)
(***************************************************************************)
BASE_RPC_URLS ==
    <<"mainnet.base.org", "base.llamarpc.com", "base-mainnet.public.blastapi.io",
      "1rpc.io/base", "base.blockpi.network", "base.meowrpc.com">>

RpcIndexes == 0..(Len(BASE_RPC_URLS) - 1)

\* the while loop of getNextRpcUrl from `attempts` on, and lines 70-75
RECURSIVE NextRpcLoop(_, _, _)
NextRpcLoop(index, failed, attempts) ==
    IF attempts < Len(BASE_RPC_URLS)
    THEN IF index \notin failed
         THEN [url |-> BASE_RPC_URLS[index + 1], currentRpcIndex |-> index,
               failedRpcs |-> failed]
         ELSE NextRpcLoop((index + 1) % Len(BASE_RPC_URLS), failed, attempts + 1)
    ELSE [url |-> BASE_RPC_URLS[1], currentRpcIndex |-> index,
          failedRpcs |-> IF Cardinality(failed) = Len(BASE_RPC_URLS) THEN {} ELSE failed]

\* getNextRpcUrl, lines 58-76: the URL returned, and the two variables after
getNextRpcUrl(index, failed) == NextRpcLoop(index, failed, 0)

\* markRpcAsFailed, lines 79-81
markRpcAsFailed(failed, index) == failed \cup {index}

RpcSlots == 1..(MaxCalls + 1)

RpcIdle == [op |-> "idle"]

\* the values of maxRetries: one attempt, and the default
RetryCounts == {1, 3}

\* what an attempt ends with: the result, an error whose message has 503, 502,
\* timeout or fetch failed, or another error
AttemptOutcomes == {"result", "server error", "other error"}

InitRpc ==
    /\ now = 0
    /\ requestTimes = <<>>
    /\ store = EmptyMap
    /\ farcasterCache = EmptyMap
    /\ ensCache = EmptyMap
    /\ calls = [s \in RpcSlots |-> RpcIdle]
    /\ ret = NoRet
    /\ NEYNAR_API_KEY = TRUE
    /\ tipn_last_refresh = <<>>
    /\ hook = HookIdle
    /\ currentRpcIndex = 0
    /\ failedRpcs = {}

\* lines 96-102: the body of the loop up to its first await, for call record
\* `call` with the variables at index and failed
StartAttempt(s, call, index, failed) ==
    LET next == getNextRpcUrl(index, failed)
    IN  /\ currentRpcIndex' = next.currentRpcIndex
        /\ failedRpcs' = next.failedRpcs
        /\ calls' = [calls EXCEPT ![s] = [call EXCEPT !.pc = "attempt",
                                                      !.rpcUrl = next.url]]
        /\ ret' = NoRet

\* executeWithFallback(operation, maxRetries) up to its first await
ExecuteWithFallback(s, maxRetries) ==
    /\ ret = NoRet
    /\ calls[s].op = "idle"
    /\ \A q \in 1..(s - 1) : calls[q].op # "idle"
    /\ StartAttempt(s, [op |-> "executeWithFallback", pc |-> "attempt", attempt |-> 0,
                        maxRetries |-> maxRetries, rpcUrl |-> BASE_RPC_URLS[1]],
                    currentRpcIndex, failedRpcs)
    /\ UNCHANGED <<now, requestTimes, store, farcasterCache, ensCache, NEYNAR_API_KEY,
                   tipn_last_refresh, hook>>

\* the awaits of lines 102-105 settle: lines 108-109 on success, the catch of
\* lines 111-132 and the end of the loop (line 135) otherwise
AttemptDone(s) ==
    /\ ret = NoRet
    /\ calls[s].op = "executeWithFallback"
    /\ calls[s].pc = "attempt"
    /\ \E outcome \in AttemptOutcomes :
         LET call == calls[s]
             moved == (currentRpcIndex + 1) % Len(BASE_RPC_URLS)
             done == [op |-> "executeWithFallback", attempts |-> call.attempt + 1,
                      maxRetries |-> call.maxRetries]
         IN  /\ currentRpcIndex' = moved
             /\ failedRpcs' = IF outcome = "server error"
                              THEN markRpcAsFailed(failedRpcs, currentRpcIndex)
                              ELSE failedRpcs
             /\ IF outcome = "result"
                THEN /\ calls' = [calls EXCEPT ![s] = RpcIdle]
                     /\ ret' = done @@ [outcome |-> "result"]
                ELSE IF call.attempt < call.maxRetries - 1
                THEN /\ calls' = [calls EXCEPT ![s] = [call EXCEPT !.pc = "wait"]]
                     /\ ret' = NoRet
                ELSE /\ calls' = [calls EXCEPT ![s] = RpcIdle]
                     /\ ret' = done @@ [outcome |-> "thrown"]
    /\ UNCHANGED <<now, requestTimes, store, farcasterCache, ensCache, NEYNAR_API_KEY,
                   tipn_last_refresh, hook>>

\* the pause of lines 129-131 is over: attempt++ and the next turn of the loop
RetryWaitDone(s) ==
    /\ ret = NoRet
    /\ calls[s].op = "executeWithFallback"
    /\ calls[s].pc = "wait"
    /\ StartAttempt(s, [calls[s] EXCEPT !.attempt = @ + 1], currentRpcIndex, failedRpcs)
    /\ UNCHANGED <<now, requestTimes, store, farcasterCache, ensCache, NEYNAR_API_KEY,
                   tipn_last_refresh, hook>>

\* the timer of lines 84-86 fires for an index that is marked
FailedRpcExpires(index) ==
    /\ ret = NoRet
    /\ index \in failedRpcs
    /\ failedRpcs' = failedRpcs \ {index}
    /\ UNCHANGED <<now, requestTimes, store, farcasterCache, ensCache, calls, ret,
                   NEYNAR_API_KEY, tipn_last_refresh, hook, currentRpcIndex>>

NextRpc ==
    \/ Deliver
    \/ \E s \in RpcSlots, maxRetries \in RetryCounts : ExecuteWithFallback(s, maxRetries)
    \/ \E s \in RpcSlots : AttemptDone(s)
    \/ \E s \in RpcSlots : RetryWaitDone(s)
    \/ \E index \in RpcIndexes : FailedRpcExpires(index)

SpecRpc == InitRpc /\ [][NextRpc]_vars

\* C37: in executeWithFallback the endpoint marked failed after a failed
\* attempt is the endpoint that attempt used; getNextRpcUrl does not return
\* an endpoint marked failed while some endpoint is not marked; and a call
\* ends after at most maxRetries attempts, with a result or a thrown error.
FallbackMarksWhatItUsed ==
    /\ [](LET next == getNextRpcUrl(currentRpcIndex, failedRpcs)
          IN  failedRpcs # RpcIndexes =>
                  \A index \in failedRpcs : BASE_RPC_URLS[index + 1] # next.url)
    /\ []((ret # NoRet /\ ret.op = "executeWithFallback") =>
              /\ ret.attempts <= ret.maxRetries
              /\ ret.outcome \in {"result", "thrown"})
    /\ [](\A s \in DOMAIN calls :
              calls[s].op = "executeWithFallback" => calls[s].attempt < calls[s].maxRetries)
    /\ [][\A index \in RpcIndexes :
              (index \in failedRpcs' /\ index \notin failedRpcs) =>
                  \E s \in DOMAIN calls :
                      /\ calls[s].op = "executeWithFallback"
                      /\ calls[s].pc = "attempt"
                      /\ calls'[s] # calls[s]
                      /\ calls[s].rpcUrl = BASE_RPC_URLS[index + 1]]_vars

====
